---- MODULE Spec2Model ----
(***************************************************************************)
(* A model of the read-only SQLite-format query engine                     *)
(* (h-arry-smith/codecrafters-sqlite-rust): the B-tree traversal of        *)
(* src/main.rs, the byte reader / header decoder, the lexer and the        *)
(* linear query plan of src/sql_engine.rs.                                 *)
(*                                                                         *)
(* TLC integers are 32 bits wide, so a u64 of the program is kept as a     *)
(* pair of 32-bit halves ([hi, lo], row ids and keys) or as a sequence of  *)
(* little-endian limbs (offsets, varints); a cast `as u32` keeps lo.       *)
(***************************************************************************)
EXTENDS Integers, Sequences, FiniteSets, TLC

VARIABLES
    file,          \* Db.file: page offset -> the page DbPage::parse decodes there
    page_size,     \* Db.header.page_size
    master_page_records, \* Db.master_page_records
    op,            \* which Db operation runs: idle, scan, index_walk, fetch, done, panic
    stack,         \* the recursion of recurse_page_for_rows: one frame per call
    rows,          \* rows: &mut Vec<DbRecord>
    row_ids,       \* row_ids: &mut Option<Vec<u32>>
    where_clause,  \* where_clause: Option<(usize, &Value)>
    result,        \* Vec<TableLeafRecord> returned by get_table_rows
    loaded,        \* history: page numbers handed to load_table / load_table_at_page
    table_rows,    \* history: the rows the table B-tree was built from, in row-id order
    request,       \* history: the operation started and its arguments
    steps,         \* QueryPlanner.steps
    step,          \* QueryPlanner::execute: index of the next step (0: no plan runs)
    execution_context, \* ExecutionContext { rows, table }
    results,       \* results: Vec<String> of QueryPlanner::execute
    stdout,        \* the lines printed
    query,         \* history: the SELECT handed to execute_select
    reader,        \* ByteReader: the bytes of the reader and the read position
    header,        \* the DbHeader returned by DbHeader::parse
    hstate,        \* DbHeader::parse: new, parsed (returned) or panic
    offset,        \* load_table_at_page: the page number asked for and let offset
    lexer,         \* two Lexers (input, position), each with the tokens of lex
    canonical,     \* history: the text in capitals that both inputs spell
    varint_n,      \* read_varint: let mut n (a u64, as 64 bits, lowest first)
    shift,         \* read_varint: let mut shift
    size,          \* read_varint: let mut size
    vstate,        \* read_varint: loop, done (returned) or panic
    encoded,       \* history: the 7-bit groups of the encoded value, highest first
    master_page,   \* master_page.records: the rows of sqlite_schema, with their sql text
    declared,      \* history: what each sql text of the master page was written from
    catalog,       \* Db::new / handle_dot_command: the MasterPageRecords parsed so far
    sql,           \* run_sql_command: the command, the statements parsed and the one running
    lookup,        \* a catalog lookup: the function called, its arguments and what it returned
    parser,        \* Parser: the text lexed, and how Parser::parse ended
    cell,          \* TableLeafRecord::parse: the bytes of a cell and the record decoded
    pager          \* the file as bytes, its cursor and the pages DbPage::parse returned

btree_vars == <<file, page_size, master_page_records, op, stack, rows, row_ids,
                where_clause, result, loaded, table_rows, request>>

query_vars == <<steps, step, execution_context, results, stdout, query>>

varint_vars == <<varint_n, shift, size, vstate, encoded>>

header_vars == <<header, hstate, offset>>

lexer_vars == <<lexer, canonical>>

catalog_vars == <<master_page, declared, catalog>>

\* the catalog lookups, the parser alone, the record decoder and the page reader
unit_vars == <<lookup, parser, cell, pager>>

vars == <<btree_vars, query_vars, reader, varint_vars, header_vars, lexer_vars,
          catalog_vars, sql, unit_vars>>

\* what the actions of one component leave alone
not_btree == <<query_vars, reader, varint_vars, header_vars, lexer_vars,
    catalog_vars, sql, unit_vars>>

not_query == <<btree_vars, reader, varint_vars, header_vars, lexer_vars,
    catalog_vars, sql, unit_vars>>

not_varint == <<btree_vars, query_vars, header_vars, lexer_vars,
    catalog_vars, sql, unit_vars>>

not_header == <<btree_vars, query_vars, varint_vars, lexer_vars,
    catalog_vars, sql, unit_vars>>

not_lexer == <<btree_vars, query_vars, reader, varint_vars, header_vars,
    catalog_vars, sql, unit_vars>>

\* the catalog commands print to stdout
not_catalog == <<btree_vars, steps, step, execution_context, results, query, reader,
                 varint_vars, header_vars, lexer_vars, sql, unit_vars>>

\* a SQL command runs the query plan on the B-tree of the file
not_sql == <<reader, varint_vars, header_vars, lexer_vars, catalog_vars, unit_vars>>

\* everything but one of the four units
not_unit == <<btree_vars, query_vars, reader, varint_vars, header_vars, lexer_vars,
              catalog_vars, sql>>

----------------------------------------------------------------------------
(* Bounds of the model *)

MaxRows == 3
MaxDepth == 5
MaxTargets == 2
MaxVarintLen == 4
MaxWordLen == 3
MaxScrapLen == 3
MaxColumns == 2
MaxEntries == 3
MaxValues == 2

----------------------------------------------------------------------------
(* Fixed-width integers: a u64 is its 8 bytes, least significant first; a  *)
(* u32 is its 4 bytes. Small numbers are converted with ToU64 / ToU32.     *)

RECURSIVE Limbs(_, _)
Limbs(x, w) == IF w = 0 THEN <<>> ELSE <<x % 256>> \o Limbs(x \div 256, w - 1)

ToU64(x) == Limbs(x, 8)

ToU32(x) == Limbs(x, 4)

Reverse(s) == [i \in 1..Len(s) |-> s[Len(s) + 1 - i]]

\* `x as u32` of a u64: the low four bytes
AsU32(a) == SubSeq(a, 1, 4)

\* `x as u64` of a u32: zero-extended
AsU64(a) == a \o <<0, 0, 0, 0>>

\* Vec<u8> / [u8] ordering: lexicographic, a proper prefix is smaller
RECURSIVE BytesGt(_, _)
BytesGt(a, b) ==
    IF a = <<>> THEN FALSE
    ELSE IF b = <<>> THEN TRUE
    ELSE IF Head(a) # Head(b) THEN Head(a) > Head(b)
    ELSE BytesGt(Tail(a), Tail(b))

\* unsigned comparison of two integers of the same width
UGt(a, b) == BytesGt(Reverse(a), Reverse(b))

UGe(a, b) == a = b \/ UGt(a, b)

ULe(a, b) == ~UGt(a, b)

----------------------------------------------------------------------------
(* Values (enum Value) and their byte forms *)

Text(s) == [t |-> "Text", b |-> s, n |-> ToU64(0)]

IntV(x) == [t |-> "Int", b |-> <<>>, n |-> x]

NullV == [t |-> "Null", b |-> <<>>, n |-> ToU64(0)]

\* Value::as_bytes: i64::to_be_bytes for Int, the raw bytes for Text and Blob
as_bytes(v) ==
    CASE v.t = "Int" -> Reverse(v.n)
      [] v.t = "Text" -> v.b
      [] v.t = "Blob" -> v.b
      [] OTHER -> <<>>

\* impl TryInto<u32> for Value: Ok(n as u32) for Int, Err(()) otherwise
TryIntoU32Ok(v) == v.t = "Int"

TryIntoU32(v) == AsU32(v.n)

----------------------------------------------------------------------------
(* Records and pages *)

TableLeafRecord(rid, vals) ==
    [kind |-> "TableLeafRecord", row_id |-> rid, values |-> vals,
     left_child |-> ToU32(0), key |-> ToU64(0)]

IndexLeafRecord(vals) ==
    [kind |-> "IndexLeafRecord", row_id |-> ToU64(0), values |-> vals,
     left_child |-> ToU32(0), key |-> ToU64(0)]

InteriorTableRecord(child, k) ==
    [kind |-> "InteriorTableRecord", row_id |-> ToU64(0), values |-> <<>>,
     left_child |-> child, key |-> k]

InteriorIndexRecord(child, vals) ==
    [kind |-> "InteriorIndexRecord", row_id |-> ToU64(0), values |-> vals,
     left_child |-> child, key |-> ToU64(0)]

\* DbPage with the header fields the traversal reads. rightmost_pointer is an
\* Option<u32>: <<>> is None, four bytes are Some.
DbPage(type, recs, rightmost) ==
    [page_type |-> type, records |-> recs, rightmost_pointer |-> rightmost]

None == <<>>

\* MasterPageRecord
MasterPageRecord(type, nm, tbl, root, cols) ==
    [table_type |-> type, name |-> nm, table_name |-> tbl, root_page |-> root,
     columns |-> cols]

----------------------------------------------------------------------------
(* Page offsets: load_table and load_table_at_page *)

\* x - 1 on a u64 (x >= 1)
RECURSIVE SubOne(_)
SubOne(a) ==
    IF a = <<>> THEN <<>>
    ELSE IF Head(a) > 0 THEN <<Head(a) - 1>> \o Tail(a)
    ELSE <<255>> \o SubOne(Tail(a))

IsZero(a) == \A i \in 1..Len(a) : a[i] = 0

\* a * m in the width of a (the carry out of the top byte is dropped); m is
\* header.page_size, at most 65536
RECURSIVE MulCarry(_, _, _)
MulCarry(a, m, c) ==
    IF a = <<>> THEN <<>>
    ELSE LET x == Head(a) * m + c
         IN  <<x % 256>> \o MulCarry(Tail(a), m, x \div 256)

\* the same product computed in 32 bits
PageOffset_U32(page, psize) == AsU64(MulCarry(SubOne(AsU32(page)), psize, 0))

\* let offset = (page - 1) * self.header.page_size as u64;
PageOffset(page, psize) == MulCarry(SubOne(page), psize, 0)

----------------------------------------------------------------------------
(* The database files of the model: one table T(ID, C) and one index on C. *)
(* The table B-tree is built from a list of rows (row ids increasing) cut  *)
(* into leaves; the index B-tree from the entries (C, row id) in key order *)
(* with some entries promoted to interior cells.                           *)

Keys == { <<97>>, <<98>> }

\* eight bytes: the length of the bytes of an Int
LongKey == <<97, 97, 97, 97, 97, 97, 97, 97>>

LookupKeys == Keys \cup { <<99>>, LongKey }

TableRoot == 2

IndexRoot == TableRoot + MaxRows + 1

PageNumbers == 1..(IndexRoot + MaxRows + 1)

RECURSIVE SortedSeq(_)
SortedSeq(S) ==
    IF S = {} THEN <<>>
    ELSE LET m == CHOOSE x \in S : \A y \in S : x <= y
         IN  <<m>> \o SortedSeq(S \ {m})

BuildRows(n, vals) ==
    [i \in 1..n |-> TableLeafRecord(ToU64(i), <<NullV, Text(vals[i])>>)]

\* page number -> page of a table B-tree whose leaves end after the rows in cuts
TablePages(rws, cuts) ==
    LET c == SortedSeq(cuts)
        k == Len(c) + 1
        b == <<0>> \o c \o <<Len(rws)>>
        leaf(j) == DbPage("LeafTable", SubSeq(rws, b[j] + 1, b[j + 1]), None)
        root == DbPage("InteriorTable",
                       [j \in 1..(k - 1) |->
                           InteriorTableRecord(ToU32(TableRoot + j), rws[b[j + 1]].row_id)],
                       ToU32(TableRoot + k))
    IN  IF k = 1 THEN [p \in {TableRoot} |-> leaf(1)]
        ELSE [p \in TableRoot..(TableRoot + k) |->
                 IF p = TableRoot THEN root ELSE leaf(p - TableRoot)]

IndexEntry(row) == IndexLeafRecord(<<row.values[2], IntV(row.row_id)>>)

\* the index entries in key order and, within a key, in row-id order
RECURSIVE EntriesByKey(_, _)
EntriesByKey(rws, ks) ==
    IF ks = {} THEN <<>>
    ELSE LET m == CHOOSE k \in ks : \A o \in ks : ~BytesGt(k, o)
             sel == SelectSeq(rws, LAMBDA r : r.values[2].b = m)
         IN  [i \in 1..Len(sel) |-> IndexEntry(sel[i])] \o EntriesByKey(rws, ks \ {m})

\* the sets of entries that may be interior cells: every leaf keeps an entry
Separators(m) ==
    { S \in SUBSET (2..(m - 1)) : \A x \in S : (x + 1) \notin S }

IndexPages(entries, seps) ==
    LET c == SortedSeq(seps)
        k == Len(c) + 1
        b == <<0>> \o c \o <<Len(entries) + 1>>
        leaf(j) == DbPage("LeafIndex", SubSeq(entries, b[j] + 1, b[j + 1] - 1), None)
        root == DbPage("InteriorIndex",
                       [j \in 1..(k - 1) |->
                           InteriorIndexRecord(ToU32(IndexRoot + j), entries[b[j + 1]].values)],
                       ToU32(IndexRoot + k))
    IN  IF k = 1 THEN [p \in {IndexRoot} |-> leaf(1)]
        ELSE [p \in IndexRoot..(IndexRoot + k) |->
                 IF p = IndexRoot THEN root ELSE leaf(p - IndexRoot)]

\* the file: the pages keyed by their byte offset
FileOf(pages, psize) ==
    [off \in {PageOffset(ToU64(p), psize) : p \in DOMAIN pages} |->
        pages[CHOOSE p \in DOMAIN pages : PageOffset(ToU64(p), psize) = off]]

Catalog ==
    << MasterPageRecord("table", "t", "t", ToU32(TableRoot), <<"ID", "C">>),
       MasterPageRecord("index", "idx_t_c", "t", ToU32(IndexRoot), <<"C">>) >>

Merge(f, g) == [x \in (DOMAIN f) \cup (DOMAIN g) |-> IF x \in DOMAIN f THEN f[x] ELSE g[x]]

PageSizes == {512}

NoWhere == [some |-> FALSE, column |-> 0, value |-> NullV]

NoRequest == [cmd |-> "none", key |-> NullV, targets |-> <<>>]

InitBTree ==
    \E n \in 0..MaxRows, psize \in PageSizes :
      \E vals \in [1..n -> Keys], cuts \in SUBSET (1..(n - 1)) :
        \E seps \in Separators(n) :
          LET rws == BuildRows(n, vals)
          IN  /\ table_rows = rws
              /\ page_size = psize
              /\ file = FileOf(Merge(TablePages(rws, cuts),
                                     IndexPages(EntriesByKey(rws, Keys), seps)), psize)
              /\ master_page_records = Catalog
              /\ op = "idle"
              /\ stack = <<>>
              /\ rows = <<>>
              /\ row_ids = [some |-> FALSE, ids |-> <<>>]
              /\ where_clause = NoWhere
              /\ result = <<>>
              /\ loaded = <<>>
              /\ request = NoRequest

\* no database file is open
BTreeIdle ==
    /\ table_rows = <<>>
    /\ page_size = 0
    /\ file = <<>>
    /\ master_page_records = <<>>
    /\ op = "idle"
    /\ stack = <<>>
    /\ rows = <<>>
    /\ row_ids = [some |-> FALSE, ids |-> <<>>]
    /\ where_clause = NoWhere
    /\ result = <<>>
    /\ loaded = <<>>
    /\ request = NoRequest

----------------------------------------------------------------------------
(* Db: catalog lookups and page loads *)

SomeIds(ids) == [some |-> TRUE, ids |-> ids]

NoIds == [some |-> FALSE, ids |-> <<>>]

Frame(p) == [no |-> p, pc |-> "start", i |-> 1]

Top == stack[Len(stack)]

\* DbPage::parse succeeds at an offset that holds a page; page 0 has no offset
CanLoad(page) == ~IsZero(page) /\ PageOffset(page, page_size) \in DOMAIN file

\* fn load_table_at_page(&mut self, page: u64) -> DbPage
load_table_at_page(page) == file[PageOffset(page, page_size)]

\* fn load_table(&mut self, table: &MasterPageRecord) -> DbPage
load_table(table) == file[PageOffset(AsU64(table.root_page), page_size)]

cur_page == load_table_at_page(AsU64(Top.no))

Lower(name) ==
    CASE name = "T" -> "t"
      [] name = "IDX_T_C" -> "idx_t_c"
      [] OTHER -> name

\* fn get_table(&mut self, table_name: &str) -> &MasterPageRecord
get_table(table_name) ==
    LET hits == { i \in 1..Len(master_page_records) :
                    Lower(master_page_records[i].table_name) = Lower(table_name) }
    IN  IF hits = {} THEN <<>>
        ELSE <<master_page_records[CHOOSE i \in hits : \A j \in hits : i <= j]>>

\* fn get_index_for_column_and_table(&mut self, table: &str, column_name: &str)
get_index_for_column_and_table(table, column_name) ==
    LET hits == { i \in 1..Len(master_page_records) :
                    /\ master_page_records[i].table_name = table
                    /\ \E c \in 1..Len(master_page_records[i].columns) :
                          master_page_records[i].columns[c] = column_name
                    /\ master_page_records[i].table_type = "index" }
    IN  IF hits = {} THEN <<>>
        ELSE <<master_page_records[CHOOSE i \in hits : \A j \in hits : i <= j]>>

Contains(s, x) == \E i \in 1..Len(s) : s[i] = x

\* the call self.recurse_page_for_rows(self.load_table_at_page(p as u64), ..) made
\* by the top frame, which resumes at pc2 with loop index i2
Call(p, pc2, i2) ==
    /\ loaded' = Append(loaded, p)
    /\ IF CanLoad(AsU64(p))
       THEN /\ stack' = [stack EXCEPT ![Len(stack)] = [@ EXCEPT !.pc = pc2, !.i = i2]]
                          \o <<Frame(p)>>
            /\ op' = op
       ELSE /\ stack' = stack
            /\ op' = "panic"

Pop == stack' = SubSeq(stack, 1, Len(stack) - 1)

Running == op \in {"scan", "index_walk", "fetch"} /\ stack # <<>>

look_for_row_ids == row_ids.some

\* if look_for_row_ids && row_ids.as_ref().unwrap().is_empty() { return; }
EarlyReturn == look_for_row_ids /\ row_ids.ids = <<>>

Entering == Running /\ Top.pc = "start"

----------------------------------------------------------------------------
(* Db::recurse_page_for_rows, one action per step of one call *)

\* lines 145-147: a row-id-directed call with nothing left to find returns
ReturnNoTargets ==
    /\ Entering
    /\ EarlyReturn
    /\ Pop
    /\ UNCHANGED <<file, page_size, master_page_records, op, rows, row_ids,
                   where_clause, result, loaded, table_rows, request>>
    /\ UNCHANGED not_btree

\* the statement after a recursive call that is followed by `return`, or the end
\* of the match arm
ReturnFromCall ==
    /\ Running
    /\ Top.pc = "ret"
    /\ Pop
    /\ UNCHANGED <<file, page_size, master_page_records, op, rows, row_ids,
                   where_clause, result, loaded, table_rows, request>>
    /\ UNCHANGED not_btree

\* PageType::InteriorIndex, one iteration of `for record in cur_page.records`
InteriorIndexCell ==
    /\ Running
    /\ cur_page.page_type = "InteriorIndex"
    /\ \/ Top.pc = "start" /\ ~EarlyReturn
       \/ Top.pc = "loop"
    /\ Top.i <= Len(cur_page.records)
    /\ Len(stack) < MaxDepth
    /\ LET irecord == cur_page.records[Top.i]
           irecord_value == irecord.values[1]
       IN  IF ~where_clause.some
           THEN /\ op' = "panic"
                /\ UNCHANGED <<stack, rows, loaded>>
           ELSE IF BytesGt(as_bytes(irecord_value), as_bytes(where_clause.value))
           THEN /\ Call(irecord.left_child, "tail", Top.i)
                /\ rows' = rows
           ELSE IF irecord_value = where_clause.value
           THEN /\ Call(irecord.left_child, "tail", Top.i)
                /\ rows' = Append(rows, irecord)
           ELSE /\ stack' = [stack EXCEPT ![Len(stack)] =
                                [@ EXCEPT !.pc = "loop", !.i = Top.i + 1]]
                /\ UNCHANGED <<op, rows, loaded>>
    /\ UNCHANGED <<file, page_size, master_page_records, row_ids, where_clause,
                   result, table_rows, request>>
    /\ UNCHANGED not_btree

\* PageType::InteriorIndex, lines 183-185: after the loop (ended or left by
\* break) the rightmost child is descended
InteriorIndexRightmost ==
    /\ Running
    /\ cur_page.page_type = "InteriorIndex"
    /\ \/ Top.pc = "tail"
       \/ /\ \/ Top.pc = "start" /\ ~EarlyReturn
             \/ Top.pc = "loop"
          /\ Top.i > Len(cur_page.records)
    /\ Len(stack) < MaxDepth
    /\ IF cur_page.rightmost_pointer = None
       THEN /\ op' = "panic"
            /\ UNCHANGED <<stack, loaded>>
       ELSE Call(cur_page.rightmost_pointer, "ret", Top.i)
    /\ UNCHANGED <<file, page_size, master_page_records, rows, row_ids,
                   where_clause, result, table_rows, request>>
    /\ UNCHANGED not_btree

\* PageType::InteriorTable with look_for_row_ids, lines 188-216
InteriorTableDirected ==
    /\ Entering
    /\ ~EarlyReturn
    /\ look_for_row_ids
    /\ cur_page.page_type = "InteriorTable"
    /\ Len(stack) < MaxDepth
    /\ IF cur_page.records = <<>>
       THEN /\ op' = "panic"
            /\ UNCHANGED <<stack, loaded>>
       ELSE LET first_row_id == row_ids.ids[1]
                first_record == cur_page.records[1]
                last_record == cur_page.records[Len(cur_page.records)]
            IN  IF UGe(AsU64(first_row_id), first_record.key)
                THEN Call(first_record.left_child, "ret", 1)
                ELSE IF ULe(AsU64(first_row_id), last_record.key)
                THEN IF cur_page.rightmost_pointer = None
                     THEN /\ op' = "panic"
                          /\ UNCHANGED <<stack, loaded>>
                     ELSE Call(cur_page.rightmost_pointer, "ret", 1)
                ELSE /\ stack' = [stack EXCEPT ![Len(stack)] = [@ EXCEPT !.pc = "loop"]]
                     /\ UNCHANGED <<op, loaded>>
    /\ UNCHANGED <<file, page_size, master_page_records, rows, row_ids,
                   where_clause, result, table_rows, request>>
    /\ UNCHANGED not_btree

\* PageType::InteriorTable, lines 218-232: one iteration of the loop over the
\* cells, or its end, which ends the call
InteriorTableCell ==
    /\ Running
    /\ cur_page.page_type = "InteriorTable"
    /\ \/ Top.pc = "start" /\ ~look_for_row_ids
       \/ Top.pc = "loop"
    /\ IF Top.i <= Len(cur_page.records)
       THEN /\ Len(stack) < MaxDepth
            /\ Call(cur_page.records[Top.i].left_child, "loop", Top.i + 1)
       ELSE /\ Pop
            /\ UNCHANGED <<op, loaded>>
    /\ UNCHANGED <<file, page_size, master_page_records, rows, row_ids,
                   where_clause, result, table_rows, request>>
    /\ UNCHANGED not_btree

\* PageType::LeafIndex, lines 234-248
LeafIndex ==
    /\ Entering
    /\ ~EarlyReturn
    /\ cur_page.page_type = "LeafIndex"
    /\ IF cur_page.records # <<>> /\ ~where_clause.some
       THEN /\ op' = "panic"
            /\ UNCHANGED <<stack, rows>>
       ELSE /\ rows' = rows \o SelectSeq(cur_page.records,
                                LAMBDA ilrecord : ilrecord.values[1] = where_clause.value)
            /\ Pop
            /\ op' = op
    /\ UNCHANGED <<file, page_size, master_page_records, row_ids, where_clause,
                   result, loaded, table_rows, request>>
    /\ UNCHANGED not_btree

\* the loop of lines 250-266 over the cells recs of a leaf table page: the rows
\* pushed and the targets left
RECURSIVE LeafTableLoop(_, _, _)
LeafTableLoop(recs, acc, ids) ==
    IF recs = <<>> THEN [rows |-> acc, ids |-> ids]
    ELSE LET trecord == Head(recs)
             id == AsU32(trecord.row_id)
         IN  IF look_for_row_ids
             THEN IF Contains(ids, id)
                  THEN LeafTableLoop(Tail(recs), Append(acc, trecord),
                                     SelectSeq(ids, LAMBDA x : x # id))
                  ELSE LeafTableLoop(Tail(recs), acc, ids)
             ELSE LeafTableLoop(Tail(recs), Append(acc, trecord), ids)

\* PageType::LeafTable, lines 249-267
LeafTable ==
    /\ Entering
    /\ ~EarlyReturn
    /\ cur_page.page_type = "LeafTable"
    /\ LET r == LeafTableLoop(cur_page.records, rows, row_ids.ids)
       IN  /\ rows' = r.rows
           /\ row_ids' = [row_ids EXCEPT !.ids = r.ids]
    /\ Pop
    /\ UNCHANGED <<file, page_size, master_page_records, op, where_clause,
                   result, loaded, table_rows, request>>
    /\ UNCHANGED not_btree

----------------------------------------------------------------------------
(* Db::get_table_rows and Db::fetch_rows_from_index *)

\* the target lists of the model: row ids that exist and one that does not
RECURSIVE SeqsUpTo(_, _)
SeqsUpTo(S, n) ==
    IF n = 0 THEN { <<>> }
    ELSE SeqsUpTo(S, n - 1) \cup
         { Append(q, x) : q \in { t \in SeqsUpTo(S, n - 1) : Len(t) = n - 1 }, x \in S }

TargetLists ==
    { t \in SeqsUpTo({ ToU32(i) : i \in 1..(MaxRows + 1) }, MaxTargets) :
        \A i, j \in 1..Len(t) : i < j => UGt(t[j], t[i]) }

\* get_column_index: the position of column_name in the entry's columns, from 0
HasColumn(record, column_name) ==
    \E c \in 1..Len(record.columns) : record.columns[c] = column_name

get_column_index(record, column_name) ==
    (CHOOSE c \in 1..Len(record.columns) :
        /\ record.columns[c] = column_name
        /\ \A d \in 1..(c - 1) : record.columns[d] # column_name) - 1

\* get_table_rows taking an empty target list for no target list
StartTableRows_EmptyIsNone(table, ids) ==
    /\ rows' = <<>>
    /\ row_ids' = IF ids.ids = <<>> THEN NoIds ELSE ids
    /\ where_clause' = NoWhere
    /\ loaded' = Append(loaded, table.root_page)
    /\ IF CanLoad(AsU64(table.root_page))
       THEN /\ stack' = <<Frame(table.root_page)>>
            /\ op' = IF ids.some /\ ids.ids # <<>> THEN "fetch" ELSE "scan"
       ELSE /\ stack' = <<>>
            /\ op' = "panic"

\* lines 115-120 of get_table_rows: load the root page and start the recursion
StartTableRows(table, ids) ==
    /\ rows' = <<>>
    /\ row_ids' = ids
    /\ where_clause' = NoWhere
    /\ loaded' = Append(loaded, table.root_page)
    /\ IF CanLoad(AsU64(table.root_page))
       THEN /\ stack' = <<Frame(table.root_page)>>
            /\ op' = IF ids.some THEN "fetch" ELSE "scan"
       ELSE /\ stack' = <<>>
            /\ op' = "panic"

\* fn get_table_rows(&mut self, table, row_ids: &mut Option<Vec<u32>>), called
\* with no target list (a full scan) or with one
get_table_rows ==
    /\ op = "idle"
    /\ \E ids \in {NoIds} \cup { SomeIds(t) : t \in TargetLists } :
         /\ StartTableRows(get_table("T")[1], ids)
         /\ request' = [cmd |-> IF ids.some THEN "fetch" ELSE "scan",
                        key |-> NullV, targets |-> ids.ids]
    /\ UNCHANGED <<file, page_size, master_page_records, result, table_rows>>
    /\ UNCHANGED not_btree

\* lines 122-130 of get_table_rows: the recursion has returned
get_table_rows_return ==
    /\ op \in {"scan", "fetch"}
    /\ stack = <<>>
    /\ IF \A i \in 1..Len(rows) : rows[i].kind = "TableLeafRecord"
       THEN /\ result' = rows
            /\ op' = "done"
       ELSE /\ result' = result
            /\ op' = "panic"
    /\ UNCHANGED <<file, page_size, master_page_records, stack, rows, row_ids,
                   where_clause, loaded, table_rows, request>>
    /\ UNCHANGED not_btree

\* fn fetch_rows_from_index(&mut self, index_record, value), lines 292-302
fetch_rows_from_index ==
    /\ op = "idle"
    /\ \E value \in { Text(k) : k \in LookupKeys } :
         LET found == get_index_for_column_and_table("t", "C")
             index_record == found[1]
             column_index == get_column_index(index_record, index_record.columns[1])
         IN  /\ found # <<>>
             /\ where_clause' = [some |-> TRUE, column |-> column_index, value |-> value]
             /\ request' = [cmd |-> "index", key |-> value, targets |-> <<>>]
             /\ loaded' = Append(loaded, index_record.root_page)
             /\ IF CanLoad(AsU64(index_record.root_page))
                THEN /\ stack' = <<Frame(index_record.root_page)>>
                     /\ op' = "index_walk"
                ELSE /\ stack' = <<>>
                     /\ op' = "panic"
    /\ rows' = <<>>
    /\ row_ids' = NoIds
    /\ UNCHANGED <<file, page_size, master_page_records, result, table_rows>>
    /\ UNCHANGED not_btree

\* lines 304-315 of fetch_rows_from_index: the index walk has returned; its rows
\* become the target list of get_table_rows
fetch_rows_from_index_fetch ==
    /\ op = "index_walk"
    /\ stack = <<>>
    /\ IF /\ \A i \in 1..Len(rows) :
               rows[i].kind = "IndexLeafRecord" /\ TryIntoU32Ok(rows[i].values[2])
          /\ get_table("t") # <<>>
       THEN StartTableRows(get_table("t")[1],
                           SomeIds([i \in 1..Len(rows) |-> TryIntoU32(rows[i].values[2])]))
       ELSE /\ op' = "panic"
            /\ UNCHANGED <<stack, rows, row_ids, where_clause, loaded>>
    /\ UNCHANGED <<file, page_size, master_page_records, result, table_rows, request>>
    /\ UNCHANGED not_btree

----------------------------------------------------------------------------
(* sql_engine.rs: the linear query plan *)

NoContext == [rows |-> <<>>, has_rows |-> FALSE, table |-> <<>>]

NoQuery == [result_columns |-> <<>>, from |-> "", where |-> <<>>]

InitQuery ==
    /\ steps = <<>>
    /\ step = 0
    /\ execution_context = NoContext
    /\ results = <<>>
    /\ stdout = <<>>
    /\ query = NoQuery

\* the decimal digits of a number, as character codes
RECURSIVE Decimal(_)
Decimal(x) == IF x < 10 THEN <<48 + x>> ELSE Decimal(x \div 10) \o <<48 + (x % 10)>>

\* the value of an integer whose bytes above the third are zero
SmallNat(a) == a[1] + 256 * a[2] + 65536 * a[3]

\* a number given by its bytes, highest first, divided by ten: the quotient,
\* highest byte first, and the remainder; r is the remainder carried in
RECURSIVE DivTen(_, _)
DivTen(be, r) ==
    IF be = <<>> THEN [q |-> <<>>, r |-> r]
    ELSE CHOOSE returned \in
             { [q |-> <<(r * 256 + Head(be)) \div 10>> \o rest.q, r |-> rest.r] :
               rest \in { DivTen(Tail(be), (r * 256 + Head(be)) % 10) } } : TRUE

\* the decimal digits of an unsigned number given by its bytes, lowest first;
\* no digit for zero
RECURSIVE DecimalDigits(_)
DecimalDigits(a) ==
    IF \A i \in 1..Len(a) : a[i] = 0 THEN <<>>
    ELSE CHOOSE returned \in
             { DecimalDigits(Reverse(d.q)) \o <<48 + d.r>> :
               d \in { DivTen(Reverse(a), 0) } } : TRUE

\* x + 1 in the width of x
RECURSIVE AddOne(_)
AddOne(a) ==
    IF a = <<>> THEN <<>>
    ELSE IF Head(a) < 255 THEN <<Head(a) + 1>> \o Tail(a)
    ELSE <<0>> \o AddOne(Tail(a))

\* -x of a two's-complement number
Negated(a) == AddOne([i \in 1..Len(a) |-> 255 - a[i]])

\* write!(f, "{}", n) for an i64
DisplayInt(n) ==
    IF \A i \in 1..Len(n) : n[i] = 0 THEN <<48>>
    ELSE IF n[Len(n)] >= 128 THEN <<45>> \o DecimalDigits(Negated(n))
    ELSE DecimalDigits(n)

\* write!(f, "{:x?}", b) for a Vec<u8>: [61, 7f]
HexDigit(x) == IF x < 10 THEN 48 + x ELSE 87 + x

RECURSIVE DisplayBytes(_)
DisplayBytes(b) ==
    IF b = <<>> THEN <<>>
    ELSE (IF b[1] < 16 THEN <<HexDigit(b[1])>>
          ELSE <<HexDigit(b[1] \div 16), HexDigit(b[1] % 16)>>)
         \o (IF Len(b) = 1 THEN <<>> ELSE <<44, 32>> \o DisplayBytes(Tail(b)))

\* impl Display for Value
Display(v) ==
    CASE v.t = "Int" -> DisplayInt(v.n)
      [] v.t = "Text" -> v.b
      [] v.t = "Blob" -> <<91>> \o DisplayBytes(v.b) \o <<93>>
      [] OTHER -> <<78, 85, 76, 76>>

\* Vec<String>::join("|")
RECURSIVE Join(_)
Join(cells) ==
    IF cells = <<>> THEN <<>>
    ELSE IF Len(cells) = 1 THEN cells[1]
    ELSE cells[1] \o <<124>> \o Join(Tail(cells))

LoadTableStep(name) == [kind |-> "LoadTable", name |-> name, value |-> NullV, columns |-> <<>>]

FilterStep(ident, value) == [kind |-> "Filter", name |-> ident, value |-> value, columns |-> <<>>]

SelectStep(columns) == [kind |-> "Select", name |-> "", value |-> NullV, columns |-> columns]

CountStep(what) == [kind |-> "Count", name |-> what, value |-> NullV, columns |-> <<>>]

\* the loop of execute_select over result_columns (lines 205-231): the column
\* list and whether a Count step was added. An entry is "*" (Ast::All),
\* "COUNT(*)" (the function) or a column name.
RECURSIVE ResultColumns(_, _)
ResultColumns(rc, columns) ==
    IF rc = <<>> THEN [columns |-> columns, count |-> FALSE]
    ELSE IF Head(rc) = "*" THEN [columns |-> <<"*">>, count |-> FALSE]
    ELSE IF Head(rc) = "COUNT(*)" THEN [columns |-> <<>>, count |-> TRUE]
    ELSE ResultColumns(Tail(rc), Append(columns, Head(rc)))

\* the plan execute_select builds
PlanOf(q) ==
    LET rc == ResultColumns(q.result_columns, <<>>)
    IN  <<LoadTableStep(q.from)>>
        \o (IF q.where = <<>> THEN <<>>
            ELSE <<FilterStep(q.where[1].column, Text(q.where[1].value))>>)
        \o (IF rc.count THEN <<CountStep("*")>> ELSE <<>>)
        \o (IF rc.columns # <<>> THEN <<SelectStep(rc.columns)>> ELSE <<>>)

ResultColumnLists ==
    { <<"*">>, <<"ID">>, <<"C">>, <<"ID", "C">>, <<"C", "ID">>, <<"COUNT(*)">>, <<"X">> }

Wheres == { <<>> } \cup { <<[column |-> "C", value |-> k]>> : k \in LookupKeys }

Queries ==
    { [result_columns |-> rc, from |-> f, where |-> w] :
        rc \in ResultColumnLists, f \in {"T", "U"}, w \in Wheres }

\* fn execute_select: build the plan; QueryPlanner::execute starts (lines 26-31)
execute_select ==
    /\ step = 0
    /\ stdout = <<>>
    /\ \E q \in Queries :
         /\ query' = q
         /\ steps' = PlanOf(q)
    /\ step' = 1
    /\ execution_context' = NoContext
    /\ results' = <<>>
    /\ UNCHANGED stdout
    /\ UNCHANGED not_query

Stepping(kind) == step >= 1 /\ step <= Len(steps) /\ steps[step].kind = kind

QueryPanic ==
    /\ step' = -1
    /\ UNCHANGED <<steps, execution_context, results, stdout, query>>

\* QueryStep::LoadTable, lines 35-40: the rows are the records of the table's
\* root page
LoadTable ==
    /\ Stepping("LoadTable")
    /\ LET table == get_table(steps[step].name)
       IN  IF table = <<>> \/ ~CanLoad(AsU64(table[1].root_page))
           THEN QueryPanic
           ELSE /\ execution_context' =
                     [rows |-> load_table(table[1]).records, has_rows |-> TRUE,
                      table |-> table]
                /\ step' = step + 1
                /\ UNCHANGED <<steps, results, stdout, query>>
    /\ UNCHANGED not_query

\* a filter that keeps every row
FilterRows_All(recs, col_index, value) == recs

\* the closure of QueryStep::Filter (lines 51-55): the rows whose column equals
\* the value
FilterRows(recs, col_index, value) ==
    SelectSeq(recs, LAMBDA row : row.values[col_index + 1] = value)

\* a record of the row set has values (it is a table leaf record)
IsRow(record) == record.kind = "TableLeafRecord"

\* QueryStep::Filter, lines 41-58
Filter ==
    /\ Stepping("Filter")
    /\ LET table == execution_context.table
       IN  IF \/ table = <<>>
              \/ ~execution_context.has_rows
              \/ ~HasColumn(table[1], steps[step].name)
              \/ \E i \in 1..Len(execution_context.rows) :
                    \/ ~IsRow(execution_context.rows[i])
                    \/ get_column_index(table[1], steps[step].name)
                         >= Len(execution_context.rows[i].values)
           THEN QueryPanic
           ELSE /\ execution_context' =
                     [execution_context EXCEPT !.rows =
                        FilterRows(@, get_column_index(table[1], steps[step].name),
                                   steps[step].value)]
                /\ step' = step + 1
                /\ UNCHANGED <<steps, results, stdout, query>>
    /\ UNCHANGED not_query

\* every column of the table, whatever columns are asked for
col_indexes_Declared(table, columns) == [c \in 1..Len(table.columns) |-> c - 1]

\* let col_indexes = ..., lines 63-70
col_indexes(table, columns) ==
    IF columns # <<"*">>
    THEN [c \in 1..Len(columns) |-> get_column_index(table, columns[c])]
    ELSE [c \in 1..Len(table.columns) |-> c - 1]

\* QueryStep::Select, lines 59-88
Select ==
    /\ Stepping("Select")
    /\ LET table == execution_context.table
           columns == steps[step].columns
       IN  IF \/ table = <<>>
              \/ ~execution_context.has_rows
              \/ columns # <<"*">> /\ \E c \in 1..Len(columns) : ~HasColumn(table[1], columns[c])
           THEN QueryPanic
           ELSE LET idx == col_indexes(table[1], columns)
                    recs == execution_context.rows
                IN  IF \E i \in 1..Len(recs), c \in 1..Len(idx) :
                          ~IsRow(recs[i]) \/ idx[c] >= Len(recs[i].values)
                    THEN QueryPanic
                    ELSE /\ results' = results \o
                              (IF Len(idx) = 0 THEN <<>>
                               ELSE [i \in 1..Len(recs) |->
                                       Join([c \in 1..Len(idx) |->
                                                Display(recs[i].values[idx[c] + 1])])])
                         /\ step' = step + 1
                         /\ UNCHANGED <<steps, execution_context, stdout, query>>
    /\ UNCHANGED not_query

\* QueryStep::Count, lines 89-96
CountRows ==
    /\ Stepping("Count")
    /\ IF steps[step].name # "*" \/ ~execution_context.has_rows
       THEN QueryPanic
       ELSE /\ results' = Append(results, Decimal(Len(execution_context.rows)))
            /\ step' = step + 1
            /\ UNCHANGED <<steps, execution_context, stdout, query>>
    /\ UNCHANGED not_query

\* lines 100-102: the steps are done, the results are printed
PrintResults ==
    /\ step = Len(steps) + 1
    /\ stdout' = stdout \o results
    /\ step' = step + 1
    /\ UNCHANGED <<steps, execution_context, results, query>>
    /\ UNCHANGED not_query

QueryDone == step = Len(steps) + 2

QueryPanicked == step = -1

NextQuery ==
    \/ execute_select
    \/ LoadTable
    \/ Filter
    \/ Select
    \/ CountRows
    \/ PrintResults

----------------------------------------------------------------------------
(* ByteReader::read_varint *)

Pow2(k) == IF k = 0 THEN 1 ELSE IF k = 1 THEN 2 ELSE IF k = 2 THEN 4
           ELSE IF k = 3 THEN 8 ELSE IF k = 4 THEN 16 ELSE IF k = 5 THEN 32
           ELSE IF k = 6 THEN 64 ELSE 128

\* a byte as a u64: 64 bits, lowest first
ByteAsU64(byte) == [i \in 1..64 |-> IF i <= 8 THEN (byte \div Pow2(i - 1)) % 2 ELSE 0]

\* n << k on a u64 (k < 64): the bits shifted out of the top are lost
Shl(x, k) == [i \in 1..64 |-> IF i > k THEN x[i - k] ELSE 0]

\* a | b
BitOr(a, b) == [i \in 1..64 |-> IF a[i] = 1 \/ b[i] = 1 THEN 1 ELSE 0]

Zero64 == [i \in 1..64 |-> 0]

\* the SQLite varint of a value given by its 7-bit groups, highest first: the
\* high bit is set on every byte but the last
VarintEncode(groups) ==
    [i \in 1..Len(groups) |-> IF i < Len(groups) THEN 128 + groups[i] ELSE groups[i]]

\* the value of the 7-bit groups, as a u64
RECURSIVE GroupsValue(_)
GroupsValue(groups) ==
    IF groups = <<>> THEN Zero64
    ELSE BitOr(Shl(GroupsValue(SubSeq(groups, 1, Len(groups) - 1)), 7),
               ByteAsU64(groups[Len(groups)]))

GroupValues == {0, 1, 127}

\* the values of the model: up to MaxVarintLen groups, the first not zero
Encodable ==
    { g \in SeqsUpTo(GroupValues, MaxVarintLen) :
        Len(g) >= 1 /\ (Len(g) > 1 => g[1] # 0) }

InitVarint ==
    \E g \in Encodable, rest \in {<<>>, <<13>>} :
        /\ encoded = g
        /\ reader = [buf |-> VarintEncode(g) \o rest, pos |-> 0]
        /\ varint_n = Zero64
        /\ shift = 0
        /\ size = 0
        /\ vstate = "loop"

VarintIdle ==
    /\ encoded = <<>>
    /\ varint_n = Zero64
    /\ shift = 0
    /\ size = 0
    /\ vstate = "idle"

\* one iteration of the loop of read_varint (lines 427-442)
read_varint ==
    /\ vstate = "loop"
    /\ IF reader.pos >= Len(reader.buf) \/ shift >= 64
       THEN \* read_exact(..).unwrap() on a short read; shift overflow
            /\ vstate' = "panic"
            /\ UNCHANGED <<reader, varint_n, shift, size>>
       ELSE LET byte == reader.buf[reader.pos + 1]
            IN  /\ reader' = [reader EXCEPT !.pos = @ + 1]
                /\ size' = size + 1
                /\ IF byte < 128
                   THEN /\ varint_n' = BitOr(Shl(varint_n, shift), ByteAsU64(byte))
                        /\ shift' = shift
                        /\ vstate' = "done"
                   ELSE /\ varint_n' = BitOr(Shl(varint_n, shift), ByteAsU64(byte - 128))
                        /\ shift' = shift + 7
                        /\ vstate' = "loop"
    /\ UNCHANGED encoded
    /\ UNCHANGED not_varint

NextVarint == read_varint

----------------------------------------------------------------------------
(* DbHeader::parse and the offset of a page *)

\* "SQLite format 3" and the nul terminator
Magic == <<83, 81, 76, 105, 116, 101, 32, 102, 111, 114, 109, 97, 116, 32, 51, 0>>

\* the reads of DbHeader::parse in order, each with the number of bytes it takes
DbHeaderReads ==
    << <<"magic", 16>>, <<"page_size", 2>>,
       <<"file_format_write_version", 1>>, <<"file_format_read_version", 1>>,
       <<"reserved_space", 1>>, <<"max_embedded_payload_fraction", 1>>,
       <<"min_embedded_payload_fraction", 1>>, <<"leaf_payload_fraction", 1>>,
       <<"file_change_counter", 4>>, <<"database_size_in_pages", 4>>,
       <<"first_freelist_trunk_page", 4>>, <<"number_of_freelist_pages", 4>>,
       <<"schema_cookie", 4>>, <<"schema_format_number", 4>>,
       <<"default_page_cache_size", 4>>, <<"largest_root_btree_page_number", 4>>,
       <<"text_encoding", 4>>, <<"user_version", 4>>,
       <<"incremental_vacuum_mode", 4>>, <<"application_id", 4>>,
       <<"skip", 20>>, <<"version_valid_for", 4>>, <<"sqlite_version_number", 4>> >>

\* read_exact for each read from position pos on: the bytes of each read, most
\* significant first, and the position reached; a short read fails
RECURSIVE ReadAll(_, _, _)
ReadAll(reads, buf, pos) ==
    IF reads = <<>> THEN [ok |-> TRUE, pos |-> pos, got |-> <<>>]
    ELSE LET width == Head(reads)[2]
         IN  IF pos + width > Len(buf) THEN [ok |-> FALSE, pos |-> pos, got |-> <<>>]
             ELSE LET rest == ReadAll(Tail(reads), buf, pos + width)
                  IN  [ok |-> rest.ok, pos |-> rest.pos,
                       got |-> <<SubSeq(buf, pos + 1, pos + width)>> \o rest.got]

\* u16::from_be_bytes / u32::from_be_bytes, as the bytes lowest first
from_be_bytes(buf) == Reverse(buf)

\* From<u8> for FileFormat
FileFormat(byte) == IF byte = 1 THEN "Legacy" ELSE IF byte = 2 THEN "Wal" ELSE "panic"

\* From<u32> for SchemaFormat
SchemaFormat(x) ==
    IF x = ToU32(1) THEN "One" ELSE IF x = ToU32(2) THEN "Two"
    ELSE IF x = ToU32(3) THEN "Three" ELSE IF x = ToU32(4) THEN "Four" ELSE "panic"

\* From<u32> for TextEncoding
TextEncoding(x) ==
    IF x = ToU32(1) THEN "Utf8" ELSE IF x = ToU32(2) THEN "Utf16le"
    ELSE IF x = ToU32(3) THEN "Utf16be" ELSE "panic"

\* the page size of the header from the u16 read at offset 16
PageSizeOf(raw) == IF raw = <<1, 0>> THEN 65536 ELSE raw[1] + 256 * raw[2]

\* the three asserts on the payload fractions
FractionsAsserted_NoLeaf(max, min, leaf) == max = 64 /\ min = 32

FractionsAsserted(max, min, leaf) == max = 64 /\ min = 32 /\ leaf = 32

\* DbHeader::parse: the header, or ok = FALSE when an unwrap, an assert or a
\* conversion panics
DbHeaderParse(rd) ==
    LET r == ReadAll(DbHeaderReads, rd.buf, rd.pos)
        f == [k \in 1..Len(r.got) |-> r.got[k]]
        largest_root_btree_page_number == from_be_bytes(f[16])
        incremental_vacuum_mode == from_be_bytes(f[19]) # ToU32(0)
    IN  IF ~r.ok THEN [ok |-> FALSE]
        ELSE IF f[1] # Magic THEN [ok |-> FALSE]
        ELSE IF ~FractionsAsserted(f[6][1], f[7][1], f[8][1]) THEN [ok |-> FALSE]
        ELSE IF largest_root_btree_page_number = ToU32(0) /\ incremental_vacuum_mode
             THEN [ok |-> FALSE]
        ELSE IF \/ FileFormat(f[3][1]) = "panic"
                \/ FileFormat(f[4][1]) = "panic"
                \/ SchemaFormat(from_be_bytes(f[14])) = "panic"
                \/ TextEncoding(from_be_bytes(f[17])) = "panic"
             THEN [ok |-> FALSE]
        ELSE [ok |-> TRUE,
              pos |-> r.pos,
              header |->
                [page_size |-> PageSizeOf(from_be_bytes(f[2])),
                 file_format_write_version |-> FileFormat(f[3][1]),
                 file_format_read_version |-> FileFormat(f[4][1]),
                 reserved_space |-> f[5][1],
                 max_embedded_payload_fraction |-> f[6][1],
                 min_embedded_payload_fraction |-> f[7][1],
                 leaf_payload_fraction |-> f[8][1],
                 file_change_counter |-> from_be_bytes(f[9]),
                 database_size_in_pages |-> from_be_bytes(f[10]),
                 first_freelist_trunk_page |-> from_be_bytes(f[11]),
                 number_of_freelist_pages |-> from_be_bytes(f[12]),
                 schema_cookie |-> from_be_bytes(f[13]),
                 schema_format |-> SchemaFormat(from_be_bytes(f[14])),
                 default_page_cache_size |-> from_be_bytes(f[15]),
                 largest_root_btree_page_number |-> largest_root_btree_page_number,
                 text_encoding |-> TextEncoding(from_be_bytes(f[17])),
                 user_version |-> from_be_bytes(f[18]),
                 incremental_vacuum_mode |-> incremental_vacuum_mode,
                 application_id |-> from_be_bytes(f[20]),
                 version_valid_for |-> from_be_bytes(f[22]),
                 sqlite_version_number |-> from_be_bytes(f[23])]]

NoHeader == [page_size |-> 0]

NoOffset == [page |-> <<>>, offset |-> <<>>]

HeaderIdle ==
    /\ header = NoHeader
    /\ hstate = "idle"
    /\ offset = NoOffset

ReaderIdle == reader = [buf |-> <<>>, pos |-> 0]

DbHeader_parse ==
    /\ hstate = "new"
    /\ LET r == DbHeaderParse(reader)
       IN  IF r.ok
           THEN /\ header' = r.header
                /\ reader' = [reader EXCEPT !.pos = r.pos]
                /\ hstate' = "parsed"
           ELSE /\ hstate' = "panic"
                /\ UNCHANGED <<header, reader>>
    /\ UNCHANGED offset
    /\ UNCHANGED not_header

\* the page numbers asked for: 1, 2, 3, 2^16 + 1, 2^24 + 2, 2^32 - 1
PagesAsked ==
    { <<1, 0, 0, 0>>, <<2, 0, 0, 0>>, <<3, 0, 0, 0>>, <<1, 0, 1, 0>>, <<2, 0, 0, 1>>,
      <<255, 255, 255, 255>> }

\* load_table / load_table_at_page: the offset handed to DbPage::parse
load_table_offset ==
    /\ hstate = "parsed"
    /\ \E page \in PagesAsked :
         offset' = [page |-> page, offset |-> PageOffset(AsU64(page), header.page_size)]
    /\ UNCHANGED <<header, hstate, reader>>
    /\ UNCHANGED not_header

\* the bytes of a header made of the given fields
BE32(x) == Reverse(ToU32(x))

HeaderBytes(magic, psize, wv, rv, fractions, sf, te, vac) ==
    magic \o psize \o <<wv, rv, 0>> \o fractions
          \o BE32(7) \o BE32(4) \o BE32(0) \o BE32(0) \o BE32(3)
          \o BE32(sf) \o BE32(0) \o BE32(vac[1]) \o BE32(te) \o BE32(0)
          \o BE32(vac[2]) \o BE32(0)
          \o [i \in 1..20 |-> 0] \o BE32(7) \o BE32(3037000)

Magics ==
    { Magic,
      [Magic EXCEPT ![1] = 115],
      [Magic EXCEPT ![16] = 1] }

RawPageSizes == { <<0, 1>>, <<2, 0>>, <<16, 0>>, <<0, 0>>, <<255, 255>> }

Fractions == { <<64, 32, 32>>, <<65, 32, 32>>, <<64, 31, 32>>, <<64, 32, 33>> }

Vacuums == { <<0, 0>>, <<0, 1>>, <<5, 1>> }

\* what follows the header in the file, or how many of its bytes are missing
Tails == { 0, 1 }

InitHeader ==
    \E magic \in Magics, psize \in RawPageSizes, wv \in {1, 2, 3}, rv \in {1, 2, 0},
       fractions \in Fractions, sf \in {1, 4, 5}, te \in {1, 3, 0}, vac \in Vacuums,
       tail \in Tails :
        LET bytes == HeaderBytes(magic, psize, wv, rv, fractions, sf, te, vac)
        IN  /\ reader = [buf |-> IF tail = 0 THEN SubSeq(bytes, 1, Len(bytes) - 1)
                                 ELSE bytes \o <<13>>,
                         pos |-> 0]
            /\ header = NoHeader
            /\ hstate = "new"
            /\ offset = NoOffset

NextHeader ==
    \/ DbHeader_parse
    \/ load_table_offset

----------------------------------------------------------------------------
(* Lexer.  A character is a one-character string; a character outside ASCII *)
(* is written by its code point ("U+00E9").  A String is a sequence of      *)
(* characters.                                                              *)

LowerCase == <<"a", "b", "c", "d", "e", "f", "g", "h", "i", "j", "k", "l", "m", "n", "o", "p", "q", "r", "s", "t", "u", "v", "w", "x", "y", "z">>

UpperCase == <<"A", "B", "C", "D", "E", "F", "G", "H", "I", "J", "K", "L", "M", "N", "O", "P", "Q", "R", "S", "T", "U", "V", "W", "X", "Y", "Z">>

Range(s) == { s[i] : i \in 1..Len(s) }

\* letters that take two bytes in UTF-8
NonAsciiLetters == { "U+00E9", "U+00C9" }

\* char::is_alphabetic
Alphabetic == Range(LowerCase) \cup Range(UpperCase) \cup NonAsciiLetters

is_alphabetic(c) == c \in Alphabetic

\* char::is_whitespace
is_whitespace(c) == c \in { " ", "\t", "\n", "\r" }

\* char::len_utf8
len_utf8(c) == IF c \in NonAsciiLetters THEN 2 ELSE 1

\* String::len: the length in bytes
len(input) ==
    Len(input) + Cardinality({ i \in 1..Len(input) : len_utf8(input[i]) = 2 })

\* the string as it is
to_ascii_uppercase_Unchanged(s) == s

\* str::to_ascii_uppercase: only a-z change
to_ascii_uppercase(s) ==
    [i \in 1..Len(s) |->
        IF \E k \in 1..26 : LowerCase[k] = s[i]
        THEN UpperCase[CHOOSE k \in 1..26 : LowerCase[k] = s[i]]
        ELSE s[i]]

\* Token
Token(type) == [type |-> type, value |-> <<>>]

StringLiteral(s) == [type |-> "StringLiteral", value |-> s]

Identifier(s) == [type |-> "Identifier", value |-> s]

Eof == Token("Eof")

\* the match on the uppercased identifier
KeywordOrIdentifier(upper) ==
    CASE upper = <<"A", "U", "T", "O", "I", "N", "C", "R", "E", "M", "E", "N", "T">> -> Token("AutoIncrement")
      [] upper = <<"C", "R", "E", "A", "T", "E">> -> Token("Create")
      [] upper = <<"T", "A", "B", "L", "E">> -> Token("Table")
      [] upper = <<"P", "R", "I", "M", "A", "R", "Y">> -> Token("Primary")
      [] upper = <<"K", "E", "Y">> -> Token("Key")
      [] upper = <<"S", "E", "L", "E", "C", "T">> -> Token("Select")
      [] upper = <<"F", "R", "O", "M">> -> Token("From")
      [] upper = <<"W", "H", "E", "R", "E">> -> Token("Where")
      [] upper = <<"N", "O", "T">> -> Token("Not")
      [] upper = <<"N", "U", "L", "L">> -> Token("Null")
      [] upper = <<"I", "N", "D", "E", "X">> -> Token("Index")
      [] upper = <<"O", "N">> -> Token("On")
      [] OTHER -> Identifier(upper)

\* a token returned with the position back at the start of the input
Returned_AtStart(token, position) == [ok |-> TRUE, token |-> token, position |-> 0]

\* what next_token does: return a token and leave the position, or panic
Returned(token, position) == [ok |-> TRUE, token |-> token, position |-> position]

Panicked == [ok |-> FALSE, token |-> Eof, position |-> 0]

\* the loop that skips a comment: the position of the newline it stops at, or
\* -1 when chars().nth(position).unwrap() finds no character
RECURSIVE skip_comment(_, _, _)
skip_comment(input, position, current_char) ==
    IF current_char = "\n" THEN position
    ELSE IF position + 1 >= Len(input) THEN -1
    ELSE skip_comment(input, position + 1, input[position + 2])

\* the loop that reads a quoted string, from the character at position on
RECURSIVE read_string(_, _, _, _)
read_string(input, position, quote, string_literal) ==
    IF position >= Len(input) THEN Panicked
    ELSE IF input[position + 1] = quote
         THEN Returned(StringLiteral(string_literal), position + 1)
    ELSE read_string(input, position + 1, quote,
                     Append(string_literal, input[position + 1]))

\* the loop that reads an identifier; the character at position is a letter or
\* an underscore
RECURSIVE read_identifier(_, _, _)
read_identifier(input, position, identifier) ==
    LET pushed == Append(identifier, input[position + 1])
    IN  IF position + 1 >= len(input)
        THEN Returned(KeywordOrIdentifier(to_ascii_uppercase(pushed)), position + 1)
        ELSE IF position + 1 >= Len(input) THEN Panicked
        ELSE IF is_alphabetic(input[position + 2]) \/ input[position + 2] = "_"
             THEN read_identifier(input, position + 1, pushed)
        ELSE Returned(KeywordOrIdentifier(to_ascii_uppercase(pushed)), position + 1)

\* Lexer::next_token
RECURSIVE next_token(_, _)
next_token(input, position) ==
    IF position >= len(input) THEN Returned(Eof, position)
    ELSE IF position >= Len(input) THEN Panicked
    ELSE LET current_char == input[position + 1]
         IN  CASE current_char = "(" -> Returned(Token("LParen"), position + 1)
               [] current_char = ")" -> Returned(Token("RParen"), position + 1)
               [] current_char = ";" -> Returned(Token("Semicolon"), position + 1)
               [] current_char = "." -> Returned(Token("Dot"), position + 1)
               [] current_char = "," -> Returned(Token("Comma"), position + 1)
               [] current_char = "=" -> Returned(Token("Equals"), position + 1)
               [] current_char = "-" ->
                    IF position + 1 >= Len(input) THEN Panicked
                    ELSE IF input[position + 2] = "-"
                         THEN LET newline == skip_comment(input, position + 2, "-")
                              IN  IF newline = -1 THEN Panicked
                                  ELSE next_token(input, newline)
                    ELSE Panicked
               [] current_char = "*" -> Returned(Token("Star"), position + 1)
               [] current_char = "'" -> read_string(input, position + 1, "'", <<>>)
               [] current_char = "\"" -> read_string(input, position + 1, "\"", <<>>)
               [] OTHER ->
                    IF is_alphabetic(current_char)
                    THEN read_identifier(input, position, <<>>)
                    ELSE IF is_whitespace(current_char)
                         THEN next_token(input, position + 1)
                    ELSE Panicked

\* Lexer::new
NewLexer(input) == [input |-> input, position |-> 0, tokens |-> <<>>, status |-> "lexing"]

\* one iteration of the loop of Lexer::lex, on lexer l
lex(l) ==
    /\ lexer[l].status = "lexing"
    /\ LET r == next_token(lexer[l].input, lexer[l].position)
       IN  IF ~r.ok
           THEN lexer' = [lexer EXCEPT ![l].status = "panic"]
           ELSE lexer' = [lexer EXCEPT ![l].position = r.position,
                                       ![l].tokens = Append(@, r.token),
                                       ![l].status = IF r.token = Eof THEN "done"
                                                     ELSE "lexing"]
    /\ UNCHANGED canonical
    /\ UNCHANGED not_lexer

NextLexer == \E l \in 1..2 : lex(l)

\* The inputs: a text in capitals and two spellings of it that differ from it
\* only in the case of letters outside quotes.

\* the character at position i of the text is inside a quoted string
Quoted(text, i) ==
    \/ Cardinality({ k \in 1..(i - 1) : text[k] = "'" }) % 2 = 1
    \/ Cardinality({ k \in 1..(i - 1) : text[k] = "\"" }) % 2 = 1

\* the text with the capitals at the positions of lowered, outside quotes, in
\* lower case
Spelling(text, lowered) ==
    [i \in 1..Len(text) |->
        IF i \in lowered /\ ~Quoted(text, i) /\ \E k \in 1..26 : UpperCase[k] = text[i]
        THEN LowerCase[CHOOSE k \in 1..26 : UpperCase[k] = text[i]]
        ELSE text[i]]

WordChars == { "O", "N", "_" }

Words == SeqsUpTo(WordChars, MaxWordLen) \ { <<>> }

KeywordWords ==
    { <<"A", "U", "T", "O", "I", "N", "C", "R", "E", "M", "E", "N", "T">>,
      <<"C", "R", "E", "A", "T", "E">>,
      <<"T", "A", "B", "L", "E">>,
      <<"P", "R", "I", "M", "A", "R", "Y">>,
      <<"K", "E", "Y">>,
      <<"S", "E", "L", "E", "C", "T">>,
      <<"F", "R", "O", "M">>,
      <<"W", "H", "E", "R", "E">>,
      <<"N", "O", "T">>,
      <<"N", "U", "L", "L">>,
      <<"I", "N", "D", "E", "X">>,
      <<"O", "N">> }

OtherWords ==
    { <<"O", "N", "E">>,
      <<"K", "E", "Y", "_">>,
      <<"N", "_", "A", "M", "E">>,
      <<"_", "I", "D">>,
      <<"A", "1">>,
      <<"A", "U+00E9">>,
      <<"U+00E9">> }

Statements ==
    { <<"S", "E", "L", "E", "C", "T", " ", "*", " ", "F", "R", "O", "M", " ", "E", "M", "P", "L", "O", "Y", "E", "E", ";">>,
      <<"S", "E", "L", "E", "C", "T", " ", "C", " ", "F", "R", "O", "M", " ", "T", " ", "W", "H", "E", "R", "E", " ", "C", " ", "=", " ", "'", "a", "B", "'", ";">>,
      <<"C", "R", "E", "A", "T", "E", " ", "T", "A", "B", "L", "E", " ", "T", " ", "(", "I", "D", " ", "I", "N", "T", "E", "G", "E", "R", " ", "P", "R", "I", "M", "A", "R", "Y", " ", "K", "E", "Y", " ", "A", "U", "T", "O", "I", "N", "C", "R", "E", "M", "E", "N", "T", ",", " ", "N", "_", "A", "M", "E", " ", "T", "E", "X", "T", ")", ";">>,
      <<"C", "R", "E", "A", "T", "E", " ", "I", "N", "D", "E", "X", " ", "I", " ", "O", "N", " ", "T", " ", "(", "C", ")">>,
      <<"S", "E", "L", "E", "C", "T", " ", "\"", "a", "B", "\"", ".", "X", " ", "F", "R", "O", "M", " ", "T", " ", "-", "-", " ", "c", "\n", ";">>,
      <<"S", "E", "L", "E", "C", "T", " ", "'", "a", "B">> }

\* every short input over a letter, the underscore, a quote, the dash, the
\* newline, the space and the semicolon
ScrapChars == { "A", "_", "'", "-", "\n", " ", ";" }

Scraps == SeqsUpTo(ScrapChars, MaxScrapLen)

\* inputs that end inside a comment or right after a dash
Comments == { <<"-", "-", "\n">>, <<"-", "-", " ", "\n", ";">>, <<"-", "-", "A">>, <<"A", "-">> }

Texts == Words \cup KeywordWords \cup OtherWords \cup Statements

\* every spelling of a short text; of a long one all capitals, all lower case,
\* and every other letter in lower case
Spellings(text) ==
    IF Len(text) <= MaxWordLen THEN SUBSET (1..Len(text))
    ELSE { {}, 1..Len(text), { i \in 1..Len(text) : i % 2 = 1 } }

InitLexer ==
    \E text \in Texts :
        \E first \in Spellings(text), second \in { {}, 1..Len(text) } :
            /\ canonical = text
            /\ lexer = [l \in 1..2 |->
                           NewLexer(Spelling(text, IF l = 1 THEN first ELSE second))]

\* one lexer on an input as it is written; the other is not used
InitLexerAlone ==
    \E text \in Scraps \cup Comments \cup OtherWords \cup Statements :
        /\ canonical = text
        /\ lexer = [l \in 1..2 |->
                       IF l = 1 THEN NewLexer(text)
                       ELSE [NewLexer(<<>>) EXCEPT !.status = "idle"]]

LexerIdle ==
    /\ canonical = <<>>
    /\ lexer = [l \in 1..2 |-> [NewLexer(<<>>) EXCEPT !.status = "idle"]]

----------------------------------------------------------------------------
(* Parser: the functions of parser.rs on a token list and a position.  Each *)
(* returns its Ast and the position it leaves, panics, or never returns.    *)
(* What a call returns is bound once, as the one element of a set.          *)

\* Lexer::lex as a function of the input: the tokens, or <<>> with ok = FALSE
\* when next_token panics
RECURSIVE lex_from(_, _, _)
lex_from(input, position, tokens) ==
    CHOOSE lexed \in
        { IF ~r.ok THEN [ok |-> FALSE, tokens |-> <<>>]
          ELSE IF r.token = Eof THEN [ok |-> TRUE, tokens |-> Append(tokens, r.token)]
          ELSE lex_from(input, r.position, Append(tokens, r.token)) :
          r \in { next_token(input, position) } } : TRUE

Lex(input) == lex_from(input, 0, <<>>)

\* Ast
AstAll == [kind |-> "All"]

AstExpr(a) == [kind |-> "Expr", of |-> a]

AstIdentifier(name) == [kind |-> "Identifier", name |-> name]

AstStringLiteral(value) == [kind |-> "StringLiteral", value |-> value]

AstFunction(name, args) == [kind |-> "Function", name |-> name, args |-> args]

AstBinaryOp(o, lhs, rhs) == [kind |-> "BinaryOp", op |-> o, lhs |-> lhs, rhs |-> rhs]

AstTable(name) == [kind |-> "Table", name |-> name]

AstTableOrSubQuery(a) == [kind |-> "TableOrSubQuery", of |-> a]

\* r#where is <<>> for None and <<expr>> for Some(expr)
AstSelect(result_columns, from, where) ==
    [kind |-> "Select", result_columns |-> result_columns, from |-> from, where |-> where]

AstStmt(a) == [kind |-> "Stmt", of |-> a]

AstStmtList(statements) == [kind |-> "StmtList", statements |-> statements]

AstCreateTable(name, column_defs) ==
    [kind |-> "CreateTable", name |-> name, column_defs |-> column_defs]

\* a column definition that drops the constraints
AstColumnDef_NoConstraints(name, data_type, constraints) ==
    [kind |-> "ColumnDef", name |-> name, data_type |-> data_type, constraints |-> <<>>]

AstColumnDef(name, data_type, constraints) ==
    [kind |-> "ColumnDef", name |-> name, data_type |-> data_type,
     constraints |-> constraints]

AstCreateIndex(name, table_name, columns) ==
    [kind |-> "CreateIndex", name |-> name, table_name |-> table_name,
     columns |-> columns]

AstNone == [kind |-> "None"]

\* what a parse function does
Parsed(position, ast) == [st |-> "ok", position |-> position, ast |-> ast]

ParsePanic == [st |-> "panic", position |-> 0, ast |-> AstNone]

ParseNeverReturns == [st |-> "loop", position |-> 0, ast |-> AstNone]

\* Parser::peek_token
peek_token(tokens, position) ==
    IF position >= Len(tokens) THEN Eof ELSE tokens[position + 1]

\* Parser::peek_next
peek_next(tokens, position) ==
    IF position + 1 >= Len(tokens) THEN Eof ELSE tokens[position + 2]

\* Parser::consume succeeds: the next token is an identifier when an identifier
\* is asked for, and the token asked for otherwise
CanConsume(tokens, position, type) == peek_token(tokens, position).type = type

\* the name taken from an Identifier or a StringLiteral token
IsName(token) == token.type \in {"Identifier", "StringLiteral"}

RECURSIVE parse_expr(_, _)
RECURSIVE parse_function_arguments(_, _, _)

\* Parser::parse_function_arguments
parse_function_arguments(tokens, position, args) ==
    CHOOSE returned \in
        { IF arg.st # "ok" THEN arg
          ELSE IF peek_token(tokens, arg.position).type = "Comma"
               THEN parse_function_arguments(tokens, arg.position + 1,
                                             Append(args, arg.ast))
          ELSE IF CanConsume(tokens, arg.position, "RParen")
               THEN Parsed(arg.position + 1, Append(args, arg.ast))
          ELSE ParsePanic :
          arg \in { IF peek_token(tokens, position).type = "Star"
                    THEN Parsed(position + 1, AstAll)
                    ELSE parse_expr(tokens, position) } } : TRUE

\* Parser::parse_function; position is at the left parenthesis
parse_function(tokens, position, name) ==
    CHOOSE returned \in
        { IF args.st # "ok" THEN args
          ELSE Parsed(args.position, AstExpr(AstFunction(name, args.ast))) :
          args \in { parse_function_arguments(tokens, position + 1, <<>>) } } : TRUE

\* the right-hand side of parse_expr; position is after the equals sign
parse_binary_op(tokens, position, name) ==
    CHOOSE returned \in
        { IF rhs.st # "ok" THEN rhs
          ELSE Parsed(rhs.position,
                      AstExpr(AstBinaryOp("Equal", AstExpr(AstIdentifier(name)), rhs.ast))) :
          rhs \in { parse_expr(tokens, position) } } : TRUE

\* Parser::parse_expr
parse_expr(tokens, position) ==
    IF peek_token(tokens, position).type = "Identifier"
    THEN IF peek_token(tokens, position + 1).type = "LParen"
         THEN parse_function(tokens, position + 1, peek_token(tokens, position).value)
         ELSE IF peek_token(tokens, position + 1).type = "Equals"
              THEN parse_binary_op(tokens, position + 2, peek_token(tokens, position).value)
         ELSE Parsed(position + 1, AstExpr(AstIdentifier(peek_token(tokens, position).value)))
    ELSE IF peek_token(tokens, position).type = "StringLiteral"
         THEN Parsed(position + 1,
                     AstExpr(AstStringLiteral(peek_token(tokens, position).value)))
    ELSE ParsePanic

\* the loop of parse_select over the result columns
RECURSIVE parse_result_columns(_, _, _)
parse_result_columns(tokens, position, result_columns) ==
    IF peek_token(tokens, position).type = "From"
    THEN Parsed(position, result_columns)
    ELSE IF peek_token(tokens, position).type = "Star"
         THEN parse_result_columns(tokens, position + 1, Append(result_columns, AstAll))
    ELSE CHOOSE returned \in
             { IF e.st # "ok" THEN e
               ELSE parse_result_columns(
                        tokens,
                        IF peek_token(tokens, e.position).type = "Comma"
                        THEN e.position + 1 ELSE e.position,
                        Append(result_columns, e.ast)) :
               e \in { parse_expr(tokens, position) } } : TRUE

\* Parser::parse_table_or_subquery
parse_table_or_subquery(tokens, position) ==
    IF CanConsume(tokens, position, "Identifier")
    THEN Parsed(position + 1, AstTable(peek_token(tokens, position).value))
    ELSE ParsePanic

\* Parser::parse_from
parse_from(tokens, position) ==
    IF ~CanConsume(tokens, position, "From") THEN ParsePanic
    ELSE CHOOSE returned \in
             { IF t.st # "ok" THEN t ELSE Parsed(t.position, AstTableOrSubQuery(t.ast)) :
               t \in { parse_table_or_subquery(tokens, position + 1) } } : TRUE

\* the end of parse_select: the optional WHERE (lines 165-171)
parse_where(tokens, position, result_columns, from) ==
    IF peek_token(tokens, position).type = "Where"
    THEN CHOOSE returned \in
             { IF expr.st # "ok" THEN expr
               ELSE Parsed(expr.position, AstSelect(result_columns, from, <<expr.ast>>)) :
               expr \in { parse_expr(tokens, position + 1) } } : TRUE
    ELSE Parsed(position, AstSelect(result_columns, from, <<>>))

\* Parser::parse_select
parse_select(tokens, position) ==
    IF ~CanConsume(tokens, position, "Select") THEN ParsePanic
    ELSE CHOOSE returned \in
             { IF rc.st # "ok" THEN rc
               ELSE CHOOSE with_from \in
                        { IF from.st # "ok" THEN from
                          ELSE parse_where(tokens, from.position, rc.ast, from.ast) :
                          from \in { parse_from(tokens, rc.position) } } : TRUE :
               rc \in { parse_result_columns(tokens, position + 1, <<>>) } } : TRUE

\* Parser::sqlite_sequence_hack
sqlite_sequence_hack(tokens, position) ==
    IF /\ CanConsume(tokens, position, "LParen")
       /\ CanConsume(tokens, position + 1, "Identifier")
       /\ CanConsume(tokens, position + 2, "Comma")
       /\ CanConsume(tokens, position + 3, "Identifier")
       /\ CanConsume(tokens, position + 4, "RParen")
    THEN Parsed(position + 5,
                AstCreateTable(<<"S", "Q", "L", "I", "T", "E", "_", "S", "E", "Q", "U", "E", "N", "C", "E">>,
                    << AstColumnDef(<<"N", "A", "M", "E">>, <<"T", "E", "X", "T">>, <<>>),
                       AstColumnDef(<<"S", "E", "Q">>, <<"I", "N", "T", "E", "G", "E", "R">>, <<>>) >>))
    ELSE ParsePanic

\* the inner loop of parse_column_defs over the constraints of a column; a
\* PRIMARY not followed by KEY, or a NOT not followed by NULL, is looked at
\* again and again
RECURSIVE parse_constraints(_, _, _)
parse_constraints(tokens, position, constraints) ==
    IF peek_token(tokens, position).type = "Primary"
    THEN IF peek_next(tokens, position).type = "Key"
         THEN parse_constraints(tokens, position + 2, Append(constraints, "PrimaryKey"))
         ELSE ParseNeverReturns
    ELSE IF peek_token(tokens, position).type = "Not"
    THEN IF peek_next(tokens, position).type = "Null"
         THEN parse_constraints(tokens, position + 2, Append(constraints, "NotNull"))
         ELSE ParseNeverReturns
    ELSE IF peek_token(tokens, position).type = "AutoIncrement"
    THEN parse_constraints(tokens, position + 1, Append(constraints, "AutoIncrement"))
    ELSE IF peek_token(tokens, position).type \in {"Comma", "RParen"}
    THEN Parsed(position, constraints)
    ELSE ParsePanic

\* the name of a column: a quoted name is put in capitals (lines 370-374)
ColumnName(token) ==
    IF token.type = "StringLiteral" THEN to_ascii_uppercase(token.value) ELSE token.value

\* Parser::parse_column_defs
RECURSIVE parse_column_defs(_, _, _)
parse_column_defs(tokens, position, column_defs) ==
    IF ~IsName(peek_token(tokens, position)) THEN ParsePanic
    ELSE IF ~CanConsume(tokens, position + 1, "Identifier") THEN ParsePanic
    ELSE CHOOSE returned \in
             { IF cs.st # "ok" THEN cs
               ELSE IF peek_token(tokens, cs.position).type = "Comma"
                    THEN parse_column_defs(
                             tokens, cs.position + 1,
                             Append(column_defs,
                                    AstColumnDef(ColumnName(peek_token(tokens, position)),
                                                 peek_token(tokens, position + 1).value,
                                                 cs.ast)))
               ELSE Parsed(cs.position,
                           Append(column_defs,
                                  AstColumnDef(ColumnName(peek_token(tokens, position)),
                                               peek_token(tokens, position + 1).value,
                                               cs.ast))) :
               cs \in { parse_constraints(tokens, position + 2, <<>>) } } : TRUE

\* Parser::parse_create_table; position is at TABLE
parse_create_table(tokens, position) ==
    IF ~CanConsume(tokens, position, "Table") THEN ParsePanic
    ELSE IF ~IsName(peek_token(tokens, position + 1)) THEN ParsePanic
    ELSE IF peek_token(tokens, position + 1).value = <<"S", "Q", "L", "I", "T", "E", "_", "S", "E", "Q", "U", "E", "N", "C", "E">>
         THEN sqlite_sequence_hack(tokens, position + 2)
    ELSE IF ~CanConsume(tokens, position + 2, "LParen") THEN ParsePanic
    ELSE CHOOSE returned \in
             { IF defs.st # "ok" THEN defs
               ELSE IF ~CanConsume(tokens, defs.position, "RParen") THEN ParsePanic
               ELSE Parsed(defs.position + 1,
                           AstCreateTable(peek_token(tokens, position + 1).value, defs.ast)) :
               defs \in { parse_column_defs(tokens, position + 3, <<>>) } } : TRUE

\* the loop of parse_create_index over the columns
RECURSIVE parse_index_columns(_, _, _)
parse_index_columns(tokens, position, columns) ==
    IF peek_token(tokens, position).type = "RParen" THEN Parsed(position, columns)
    ELSE CHOOSE returned \in
             { IF ~IsName(peek_token(tokens, at)) THEN ParsePanic
               ELSE parse_index_columns(
                        tokens, at + 1,
                        Append(columns, AstIdentifier(peek_token(tokens, at).value))) :
               at \in { IF peek_token(tokens, position).type = "Comma"
                        THEN position + 1 ELSE position } } : TRUE

\* Parser::parse_create_index; position is at INDEX
parse_create_index(tokens, position) ==
    IF ~CanConsume(tokens, position, "Index") THEN ParsePanic
    ELSE IF ~IsName(peek_token(tokens, position + 1)) THEN ParsePanic
    ELSE IF ~CanConsume(tokens, position + 2, "On") THEN ParsePanic
    ELSE IF ~IsName(peek_token(tokens, position + 3)) THEN ParsePanic
    ELSE IF ~CanConsume(tokens, position + 4, "LParen") THEN ParsePanic
    ELSE CHOOSE returned \in
             { IF columns.st # "ok" THEN columns
               ELSE Parsed(columns.position + 1,
                           AstCreateIndex(peek_token(tokens, position + 1).value,
                                          peek_token(tokens, position + 3).value,
                                          columns.ast)) :
               columns \in { parse_index_columns(tokens, position + 5, <<>>) } } : TRUE

\* Parser::parse_create
parse_create(tokens, position) ==
    IF ~CanConsume(tokens, position, "Create") THEN ParsePanic
    ELSE IF peek_token(tokens, position + 1).type = "Table"
         THEN parse_create_table(tokens, position + 1)
    ELSE IF peek_token(tokens, position + 1).type = "Index"
         THEN parse_create_index(tokens, position + 1)
    ELSE ParsePanic

\* Parser::parse_statement
parse_statement(tokens, position) ==
    CHOOSE returned \in
        { IF statement.st # "ok" THEN statement
          ELSE Parsed(IF peek_token(tokens, statement.position).type = "Semicolon"
                      THEN statement.position + 1 ELSE statement.position,
                      AstStmt(statement.ast)) :
          statement \in { IF peek_token(tokens, position).type = "Select"
                          THEN parse_select(tokens, position)
                          ELSE IF peek_token(tokens, position).type = "Create"
                               THEN parse_create(tokens, position)
                          ELSE ParsePanic } } : TRUE

\* Parser::parse_statements
RECURSIVE parse_statements(_, _, _)
parse_statements(tokens, position, statements) ==
    CHOOSE returned \in
        { IF statement.st # "ok" THEN statement
          ELSE IF peek_token(tokens, statement.position) = Eof
               THEN Parsed(statement.position, Append(statements, statement.ast))
          ELSE parse_statements(tokens, statement.position,
                                Append(statements, statement.ast)) :
          statement \in { parse_statement(tokens, position) } } : TRUE

\* Parser::parse
parse(tokens) ==
    CHOOSE returned \in
        { IF statements.st # "ok" THEN statements
          ELSE Parsed(statements.position, AstStmtList(statements.ast)) :
          statements \in { parse_statements(tokens, 0, <<>>) } } : TRUE

----------------------------------------------------------------------------
(* The catalog: MasterPageRecord::parse on the rows of the master page, in   *)
(* Db::new and in the .tables command.                                      *)

\* the printable ASCII characters, from the space (32) to the tilde (126); the
\* grave accent (96) is written U+0060
Ascii == <<" ", "!", "\"", "#", "$", "%", "&", "'", "(", ")", "*", "+", ",", "-", ".", "/", "0", "1", "2", "3", "4", "5", "6", "7", "8", "9", ":", ";", "<", "=", ">", "?", "@", "A", "B", "C", "D", "E", "F", "G", "H", "I", "J", "K", "L", "M", "N", "O", "P", "Q", "R", "S", "T", "U", "V", "W", "X", "Y", "Z", "[", "\\", "]", "^", "_", "U+0060", "a", "b", "c", "d", "e", "f", "g", "h", "i", "j", "k", "l", "m", "n", "o", "p", "q", "r", "s", "t", "u", "v", "w", "x", "y", "z", "{", "|", "}", "~">>

\* the byte of an ASCII character
CharCode(c) == 31 + (CHOOSE i \in 1..Len(Ascii) : Ascii[i] = c)

\* String::as_bytes for a string of ASCII characters
as_utf8(s) == [i \in 1..Len(s) |-> CharCode(s[i])]

\* impl Ord for String: the order of the bytes
RECURSIVE StringLt(_, _)
StringLt(a, b) ==
    IF b = <<>> THEN FALSE
    ELSE IF a = <<>> THEN TRUE
    ELSE IF CharCode(a[1]) # CharCode(b[1]) THEN CharCode(a[1]) < CharCode(b[1])
    ELSE StringLt(Tail(a), Tail(b))

\* Vec<String>::sort
RECURSIVE sort(_)
sort(strings) ==
    IF strings = <<>> THEN <<>>
    ELSE LET least == CHOOSE i \in 1..Len(strings) :
                          \A j \in 1..Len(strings) :
                              \/ StringLt(strings[i], strings[j])
                              \/ strings[i] = strings[j] /\ i <= j
         IN  <<strings[least]>>
             \o sort([k \in 1..(Len(strings) - 1) |->
                         IF k < least THEN strings[k] ELSE strings[k + 1]])

\* MasterPageRecord::analyse_sql_for_column_order: the columns and the Ast of
\* parse_create, a panic, or no return
analyse_sql_for_column_order(sql_text) ==
    CHOOSE returned \in
        { IF ~lexed.ok THEN [st |-> "panic", columns |-> <<>>, ast |-> AstNone]
          ELSE CHOOSE analysed \in
                   { IF ast.st # "ok" THEN [st |-> ast.st, columns |-> <<>>, ast |-> AstNone]
                     ELSE IF ast.ast.kind = "CreateTable"
                          THEN [st |-> "ok",
                                columns |-> [i \in 1..Len(ast.ast.column_defs) |->
                                                ast.ast.column_defs[i].name],
                                ast |-> ast.ast]
                     ELSE [st |-> "ok",
                           columns |-> sort([i \in 1..Len(ast.ast.columns) |->
                                                ast.ast.columns[i].name]),
                           ast |-> ast.ast] :
                     ast \in { parse_create(lexed.tokens, 0) } } : TRUE :
          lexed \in { Lex(sql_text) } } : TRUE

\* Vec<String>::join(" ")
RECURSIVE JoinWith(_, _)
JoinWith(strings, separator) ==
    IF strings = <<>> THEN <<>>
    ELSE IF Len(strings) = 1 THEN strings[1]
    ELSE strings[1] \o separator \o JoinWith(Tail(strings), separator)

NoCatalog == [command |-> "idle", status |-> "idle", records |-> <<>>, asts |-> <<>>]

CatalogIdle ==
    /\ master_page = <<>>
    /\ declared = <<>>
    /\ catalog = NoCatalog

\* Db::new (main.rs 44-60): the records of the master page are parsed
Db_new ==
    /\ catalog.command = "idle"
    /\ catalog' = [catalog EXCEPT !.command = "new", !.status = "parsing"]
    /\ UNCHANGED <<master_page, declared, stdout>>
    /\ UNCHANGED not_catalog

\* handle_dot_command, "tables": the first line is printed before the records
\* are parsed (the map is lazy)
handle_dot_command ==
    /\ catalog.command = "idle"
    /\ catalog' = [catalog EXCEPT !.command = "tables", !.status = "parsing"]
    /\ stdout' = Append(stdout,
                        as_utf8(<<"n", "u", "m", "b", "e", "r", " ", "o", "f", " ", "t", "a", "b", "l", "e", "s", ":", " ">>) \o Decimal(Len(master_page)))
    /\ UNCHANGED <<master_page, declared>>
    /\ UNCHANGED not_catalog

\* MasterPageRecord::parse on the next record of the master page
MasterPageRecord_parse ==
    /\ catalog.status = "parsing"
    /\ Len(catalog.records) < Len(master_page)
    /\ \E record \in { master_page[Len(catalog.records) + 1] } :
         \E analysed \in { analyse_sql_for_column_order(record.sql) } :
            IF analysed.st = "ok"
            THEN catalog' = [catalog EXCEPT
                               !.records = Append(@, MasterPageRecord(record.table_type,
                                               record.name, record.table_name,
                                               record.root_page, analysed.columns)),
                               !.asts = Append(@, analysed.ast)]
            ELSE catalog' = [catalog EXCEPT !.status = analysed.st]
    /\ UNCHANGED <<master_page, declared, stdout>>
    /\ UNCHANGED not_catalog

\* the records are collected: Db::new returns, .tables prints the names
collect ==
    /\ catalog.status = "parsing"
    /\ Len(catalog.records) = Len(master_page)
    /\ catalog' = [catalog EXCEPT !.status = "done"]
    /\ stdout' = IF catalog.command = "tables"
                 THEN Append(stdout,
                             as_utf8(JoinWith([i \in 1..Len(catalog.records) |->
                                                  catalog.records[i].name], <<" ">>)))
                 ELSE stdout
    /\ UNCHANGED <<master_page, declared>>
    /\ UNCHANGED not_catalog

NextCatalog ==
    \/ Db_new
    \/ handle_dot_command
    \/ MasterPageRecord_parse
    \/ collect

\* The master pages of the model: one CREATE statement written from a
\* declaration, or some of the rows of a sample schema.

\* a name as it is written and as it is in capitals
Name(text, upper, quoted) == [text |-> text, upper |-> upper, quoted |-> quoted]

ColumnNames ==
    { Name(<<"i", "d">>, <<"I", "D">>, FALSE), Name(<<"N", "a", "_", "m", "e">>, <<"N", "A", "_", "M", "E">>, FALSE),
      Name(<<"s", "i", "z", "e", " ", "r", "a", "n", "g", "e">>, <<"S", "I", "Z", "E", " ", "R", "A", "N", "G", "E">>, TRUE) }

TableNames == { Name(<<"t">>, <<"T">>, FALSE), Name(<<"M", "y", " ", "t">>, <<"M", "y", " ", "t">>, TRUE) }

DataTypes == << <<"i", "n", "t", "e", "g", "e", "r">>, <<"T", "e", "x", "t">> >>

\* a constraint as it is written and as the parser records it
Constraint(text, constraint) == [text |-> text, constraint |-> constraint]

ConstraintLists ==
    LET PrimaryKey == Constraint(<<"p", "r", "i", "m", "a", "r", "y", " ", "k", "e", "y">>, "PrimaryKey")
        AutoIncrement == Constraint(<<"A", "U", "T", "O", "I", "N", "C", "R", "E", "M", "E", "N", "T">>, "AutoIncrement")
        NotNull == Constraint(<<"N", "o", "t", " ", "N", "u", "l", "l">>, "NotNull")
    IN  << <<NotNull, PrimaryKey>>, <<PrimaryKey, AutoIncrement>>, <<>>, <<NotNull>>,
           <<PrimaryKey>> >>

DistinctNames(names) == \A i, j \in 1..Len(names) : names[i] = names[j] => i = j

\* the columns of a table: their names in any order; the types and the
\* constraint lists go round the ones of the model, starting from any of them
ColumnDecls(names, t, k) ==
    [c \in 1..Len(names) |->
        [name |-> names[c],
         data_type |-> DataTypes[((c + t) % Len(DataTypes)) + 1],
         constraints |-> ConstraintLists[((c + k) % Len(ConstraintLists)) + 1]]]

TableDecls ==
    { [kind |-> "table", name |-> n, columns |-> ColumnDecls(names, t, k)] :
        n \in TableNames,
        names \in { c \in SeqsUpTo(ColumnNames, MaxColumns) : c # <<>> /\ DistinctNames(c) },
        t \in 1..Len(DataTypes), k \in 1..Len(ConstraintLists) }

\* the spellings of the table SQLite makes for AUTOINCREMENT
SequenceNames ==
    { Name(<<"s", "q", "l", "i", "t", "e", "_", "s", "e", "q", "u", "e", "n", "c", "e">>, <<"S", "Q", "L", "I", "T", "E", "_", "S", "E", "Q", "U", "E", "N", "C", "E">>, FALSE),
      Name(<<"S", "Q", "L", "I", "T", "E", "_", "S", "E", "Q", "U", "E", "N", "C", "E">>, <<"S", "Q", "L", "I", "T", "E", "_", "S", "E", "Q", "U", "E", "N", "C", "E">>, FALSE),
      Name(<<"S", "q", "l", "i", "t", "e", "_", "S", "e", "q", "u", "e", "n", "c", "e">>, <<"S", "Q", "L", "I", "T", "E", "_", "S", "E", "Q", "U", "E", "N", "C", "E">>, FALSE),
      Name(<<"s", "q", "l", "i", "t", "e", "_", "s", "e", "q", "u", "e", "n", "c", "e">>, <<"S", "Q", "L", "I", "T", "E", "_", "S", "E", "Q", "U", "E", "N", "C", "E">>, TRUE),
      Name(<<"S", "Q", "L", "I", "T", "E", "_", "S", "E", "Q", "U", "E", "N", "C", "E">>, <<"S", "Q", "L", "I", "T", "E", "_", "S", "E", "Q", "U", "E", "N", "C", "E">>, TRUE) }

SequenceDecls == { [kind |-> "sequence", name |-> n, columns |-> <<>>] : n \in SequenceNames }

IndexColumnNames ==
    { Name(<<"b">>, <<"B">>, FALSE), Name(<<"a">>, <<"A">>, FALSE), Name(<<"A", "b">>, <<"A", "B">>, FALSE) }

IndexDecls ==
    { [kind |-> "index", name |-> Name(<<"i", "d", "x", "_", "t">>, <<"I", "D", "X", "_", "T">>, FALSE), on |-> n, columns |-> cols] :
        n \in TableNames,
        cols \in { c \in SeqsUpTo(IndexColumnNames, MaxColumns) :
                     c # <<>> /\ DistinctNames(c) } }

\* the text of a declaration
RenderName(n) == IF n.quoted THEN <<"\"">> \o n.text \o <<"\"">> ELSE n.text

RECURSIVE RenderConstraints(_)
RenderConstraints(cs) ==
    IF cs = <<>> THEN <<>> ELSE <<" ">> \o cs[1].text \o RenderConstraints(Tail(cs))

RenderColumn(c) ==
    RenderName(c.name) \o <<" ">> \o c.data_type \o RenderConstraints(c.constraints)

Render(d) ==
    CASE d.kind = "table" ->
            <<"C", "R", "E", "A", "T", "E", " ", "T", "A", "B", "L", "E", " ">> \o RenderName(d.name) \o <<" ", "(">>
            \o JoinWith([i \in 1..Len(d.columns) |-> RenderColumn(d.columns[i])], <<",", " ">>)
            \o <<")">>
      [] d.kind = "sequence" ->
            <<"C", "R", "E", "A", "T", "E", " ", "T", "A", "B", "L", "E", " ">> \o RenderName(d.name) \o <<"(", "n", "a", "m", "e", ",", "s", "e", "q", ")">>
      [] OTHER ->
            <<"C", "R", "E", "A", "T", "E", " ", "I", "N", "D", "E", "X", " ">> \o RenderName(d.name) \o <<" ", "o", "n", " ">> \o RenderName(d.on) \o <<" ", "(">>
            \o JoinWith([i \in 1..Len(d.columns) |-> RenderName(d.columns[i])], <<",", " ">>)
            \o <<")">>

\* the row of sqlite_schema of a declaration
SchemaRow(d, root) ==
    [table_type |-> IF d.kind = "index" THEN <<"i", "n", "d", "e", "x">> ELSE <<"t", "a", "b", "l", "e">>,
     name |-> d.name.text,
     table_name |-> IF d.kind = "index" THEN d.on.text ELSE d.name.text,
     root_page |-> ToU32(root),
     sql |-> Render(d)]

\* the schema of the sample: two tables, the sequence table and an index
SampleDecls ==
    { [kind |-> "table", name |-> Name(<<"a", "p", "p", "l", "e", "s">>, <<"A", "P", "P", "L", "E", "S">>, FALSE),
       columns |-> << [name |-> Name(<<"i", "d">>, <<"I", "D">>, FALSE), data_type |-> <<"i", "n", "t", "e", "g", "e", "r">>,
                       constraints |-> <<>>] >>],
      [kind |-> "sequence", name |-> Name(<<"s", "q", "l", "i", "t", "e", "_", "s", "e", "q", "u", "e", "n", "c", "e">>, <<"S", "Q", "L", "I", "T", "E", "_", "S", "E", "Q", "U", "E", "N", "C", "E">>, FALSE),
       columns |-> <<>>],
      [kind |-> "table", name |-> Name(<<"o", "r", "a", "n", "g", "e", "s">>, <<"O", "R", "A", "N", "G", "E", "S">>, FALSE),
       columns |-> << [name |-> Name(<<"i", "d">>, <<"I", "D">>, FALSE), data_type |-> <<"i", "n", "t", "e", "g", "e", "r">>,
                       constraints |-> <<>>] >>],
      [kind |-> "index", name |-> Name(<<"i", "d", "x", "_", "a", "p", "p", "l", "e", "s">>, <<"I", "D", "X", "_", "A", "P", "P", "L", "E", "S">>, FALSE),
       on |-> Name(<<"a", "p", "p", "l", "e", "s">>, <<"A", "P", "P", "L", "E", "S">>, FALSE),
       columns |-> << Name(<<"i", "d">>, <<"I", "D">>, FALSE) >>] }

Schemas ==
    { <<d>> : d \in TableDecls \cup SequenceDecls \cup IndexDecls }
    \cup { s \in SeqsUpTo(SampleDecls, MaxEntries) : DistinctNames(s) }

InitCatalog ==
    \E schema \in Schemas :
        /\ declared = schema
        /\ master_page = [i \in 1..Len(schema) |-> SchemaRow(schema[i], i + 1)]
        /\ catalog = NoCatalog

----------------------------------------------------------------------------
(* A SQL command: run_sql_command, Db::run_sql_command and SqlEngine::execute, *)
(* run twice as two invocations of the program: on a text and on the text     *)
(* followed by a semicolon.                                                   *)

NoSql ==
    [status |-> "idle", command |-> <<>>, calls |-> 0, executed |-> 0,
     statements |-> <<>>, next |-> 0, run |-> 0, text |-> <<>>, outputs |-> <<>>]

SqlIdle == sql = NoSql

\* str::ends_with(char)
ends_with(command, c) == command # <<>> /\ command[Len(command)] = c

\* a command with two semicolons added
Appended_Twice(command) == command \o <<";", ";">>

\* format!("{};", command)
Appended(command) == command \o <<";">>

\* the String of a sequence of characters
RECURSIVE StringOf(_)
StringOf(chars) == IF chars = <<>> THEN "" ELSE chars[1] \o StringOf(Tail(chars))

\* the loop of execute_select over result_columns (lines 205-231), up to the
\* entry it breaks at: the entries as PlanOf takes them, or a panic
\* a name pushed on the columns that follow it
Pushed(name, rest) ==
    IF rest.ok THEN [ok |-> TRUE, names |-> <<StringOf(name)>> \o rest.names] ELSE rest

RECURSIVE ResultColumnNames(_)
ResultColumnNames(result_columns) ==
    IF result_columns = <<>> THEN [ok |-> TRUE, names |-> <<>>]
    ELSE \* Ast::All: columns = vec!["*"]; break
         IF result_columns[1].kind = "All" THEN [ok |-> TRUE, names |-> <<"*">>]
    ELSE IF result_columns[1].kind = "Identifier"
         THEN Pushed(result_columns[1].name, ResultColumnNames(Tail(result_columns)))
    ELSE IF result_columns[1].kind = "Expr"
         THEN IF result_columns[1].of.kind = "Function"
              THEN IF /\ result_columns[1].of.name = <<"C", "O", "U", "N", "T">>
                      /\ result_columns[1].of.args # <<>>
                      /\ result_columns[1].of.args[1] = AstAll
                   THEN [ok |-> TRUE, names |-> <<"COUNT(*)">>]
                   ELSE [ok |-> FALSE, names |-> <<>>]
              ELSE IF result_columns[1].of.kind = "Identifier"
                   THEN Pushed(result_columns[1].of.name,
                               ResultColumnNames(Tail(result_columns)))
              ELSE [ok |-> FALSE, names |-> <<>>]
    ELSE [ok |-> FALSE, names |-> <<>>]

\* the matches of execute_select on its where clause (lines 170-203)
WhereOf(where) ==
    IF where = <<>> THEN [ok |-> TRUE, where |-> <<>>]
    ELSE IF /\ where[1].kind = "Expr"
            /\ where[1].of.kind = "BinaryOp"
            /\ where[1].of.lhs.kind = "Expr"
            /\ where[1].of.lhs.of.kind = "Identifier"
            /\ where[1].of.rhs.kind = "Expr"
            /\ where[1].of.rhs.of.kind = "StringLiteral"
            /\ where[1].of.op = "Equal"
         THEN [ok |-> TRUE,
               where |-> <<[column |-> StringOf(where[1].of.lhs.of.name),
                            value |-> as_utf8(where[1].of.rhs.of.value)]>>]
         ELSE [ok |-> FALSE, where |-> <<>>]

\* SqlEngine::execute_select on the Ast of a SELECT: the query it plans, or a
\* panic
QueryOf(select) ==
    IF select.from.kind = "TableOrSubQuery" /\ select.from.of.kind = "Table"
    THEN CHOOSE planned \in
             { IF where.ok /\ names.ok
               THEN [ok |-> TRUE,
                     query |-> [result_columns |-> names.names,
                                from |-> StringOf(select.from.of.name),
                                where |-> where.where]]
               ELSE [ok |-> FALSE, query |-> NoQuery] :
               where \in { WhereOf(select.where) },
               names \in { ResultColumnNames(select.result_columns) } } : TRUE
    ELSE [ok |-> FALSE, query |-> NoQuery]

SqlPanicked == sql.status = "panic" \/ QueryPanicked

SqlEnded == sql.status = "done" \/ SqlPanicked

\* fn run_sql_command (main.rs 318-324): an invocation of the program with a
\* SQL command; the second invocation has the text with a semicolon after it
run_sql_command ==
    /\ \/ sql.run = 0
       \/ sql.run = 1 /\ SqlEnded
    /\ sql' = [sql EXCEPT !.run = @ + 1,
                          !.status = "call",
                          !.command = IF sql.run = 0 THEN sql.text
                                      ELSE sql.text \o <<";">>,
                          !.calls = 1,
                          !.executed = 0,
                          !.statements = <<>>,
                          !.next = 0,
                          !.outputs = IF sql.run = 0 THEN <<>>
                                      ELSE <<[stdout |-> stdout, panicked |-> SqlPanicked,
                                             calls |-> sql.calls]>>]
    /\ stdout' = <<>>
    /\ steps' = <<>>
    /\ step' = 0
    /\ execution_context' = NoContext
    /\ results' = <<>>
    /\ query' = NoQuery
    /\ UNCHANGED <<btree_vars, not_sql>>

\* Db::run_sql_command (main.rs 62-71); SqlEngine::execute lexes and parses the
\* command (sql_engine.rs 120-129)
Db_run_sql_command ==
    /\ sql.status = "call"
    /\ IF ~ends_with(sql.command, ";")
       THEN sql' = [sql EXCEPT !.command = Appended(@), !.calls = @ + 1]
       ELSE \E lexed \in { Lex(sql.command) } :
              \E ast \in { IF lexed.ok THEN parse(lexed.tokens) ELSE ParsePanic } :
                 IF ast.st = "ok"
                 THEN sql' = [sql EXCEPT !.status = "executing", !.executed = @ + 1,
                                         !.statements = ast.ast.statements, !.next = 1]
                 ELSE sql' = [sql EXCEPT !.status = "panic", !.executed = @ + 1]
    /\ UNCHANGED <<query_vars, btree_vars, not_sql>>

\* SqlEngine::execute_statement on the next statement of execute_statements:
\* execute_select builds the plan and QueryPlanner::execute starts
execute_statement ==
    /\ sql.status = "executing"
    /\ sql.next <= Len(sql.statements)
    /\ step = 0 \/ QueryDone
    /\ \E stmt \in { sql.statements[sql.next] } :
         \E planned \in { IF stmt.kind = "Stmt" /\ stmt.of.kind = "Select"
                          THEN QueryOf(stmt.of)
                          ELSE [ok |-> FALSE, query |-> NoQuery] } :
            IF planned.ok
            THEN /\ sql' = [sql EXCEPT !.next = @ + 1]
                 /\ query' = planned.query
                 /\ steps' = PlanOf(planned.query)
                 /\ step' = 1
                 /\ execution_context' = NoContext
                 /\ results' = <<>>
                 /\ UNCHANGED stdout
            ELSE /\ sql' = [sql EXCEPT !.status = "panic"]
                 /\ UNCHANGED query_vars
    /\ UNCHANGED <<btree_vars, not_sql>>

\* execute_statements has run every statement: the command returns
execute_statements_return ==
    /\ sql.status = "executing"
    /\ sql.next > Len(sql.statements)
    /\ step = 0 \/ QueryDone
    /\ sql' = [sql EXCEPT !.status = "done"]
    /\ UNCHANGED <<query_vars, btree_vars, not_sql>>

NextSql ==
    \/ run_sql_command
    \/ Db_run_sql_command
    \/ execute_statement
    \/ execute_statements_return
    \/ LoadTable
    \/ Filter
    \/ Select
    \/ CountRows
    \/ PrintResults

\* the commands of the model
SqlTexts ==
    { <<"S", "E", "L", "E", "C", "T", " ", "C", "O", "U", "N", "T", "(", "*", ")", " ", "F", "R", "O", "M", " ", "t">>,
      <<"s", "e", "l", "e", "c", "t", " ", "c", " ", "f", "r", "o", "m", " ", "t">>,
      <<"S", "E", "L", "E", "C", "T", " ", "i", "d", ",", " ", "c", " ", "F", "R", "O", "M", " ", "t", " ", "W", "H", "E", "R", "E", " ", "c", " ", "=", " ", "'", "a", "'">>,
      <<"s", "e", "l", "e", "c", "t", " ", "*", " ", "f", "r", "o", "m", " ", "T", " ", "w", "h", "e", "r", "e", " ", "c", " ", "=", " ", "\"", "b", "\"", " ">>,
      <<"s", "e", "l", "e", "c", "t", " ", "c", "o", "u", "n", "t", "(", "*", ")", " ", "f", "r", "o", "m", " ", "t", " ", "w", "h", "e", "r", "e", " ", "c", " ", "=", " ", "'", "a", "'">>,
      <<"s", "e", "l", "e", "c", "t", " ", "x", " ", "f", "r", "o", "m", " ", "t">>,
      <<"s", "e", "l", "e", "c", "t", " ", "c", " ", "f", "r", "o", "m", " ", "u">>,
      <<"S", "E", "L", "E", "C", "T", " ", "c", " ", "F", "R", "O", "M", " ", "t", ";", " ", "S", "E", "L", "E", "C", "T", " ", "x", " ", "F", "R", "O", "M", " ", "t">>,
      <<"s", "e", "l", "e", "c", "t", " ", "c", "o", "u", "n", "t", "(", "*", ")", " ", "f", "r", "o", "m", " ", "t", ";", " ", "s", "e", "l", "e", "c", "t", " ", "c", ",", " ", "i", "d", " ", "f", "r", "o", "m", " ", "t">>,
      <<"s", "e", "l", "e", "c", "t", " ", "c", " ", "f", "r", "o", "m", " ", "t", " ", "w", "h", "e", "r", "e">>,
      <<"s", "e", "l", "e", "c", "t", " ", "c", " ", "f", "r", "o", "m", " ", "t", " ", "w", "h", "e", "r", "e", " ", "'", "a", "'", " ", "=", " ", "c">>,
      <<"s", "e", "l", "e", "c", "t", " ", "u", "p", "p", "e", "r", "(", "c", ")", " ", "f", "r", "o", "m", " ", "t">>,
      <<"C", "R", "E", "A", "T", "E", " ", "T", "A", "B", "L", "E", " ", "t", " ", "(", "i", "d", " ", "i", "n", "t", "e", "g", "e", "r", ")">>,
      <<"s", "e", "l", "e", "c", "t", " ", "c", " ", "f", "r", "o", "m", " ", "t", " ", "-", "-", " ", "a", "l", "l">>,
      <<>>,
      <<"S", "E", "L", "E", "C", "T", " ", "c", " ", "F", "R", "O", "M", " ", "t", ";">> }

InitSql == \E text \in SqlTexts : sql = [NoSql EXCEPT !.text = text]

----------------------------------------------------------------------------
(* Catalog lookups on the records Db::new has parsed: Db::get_table,        *)
(* Db::get_index_for_column_and_table and MasterPageRecord::get_column_index *)
(* with names as Strings (sequences of characters).                         *)

\* str::to_ascii_lowercase: only A-Z change
to_ascii_lowercase(s) ==
    [i \in 1..Len(s) |->
        IF \E k \in 1..26 : UpperCase[k] = s[i]
        THEN LowerCase[CHOOSE k \in 1..26 : UpperCase[k] = s[i]]
        ELSE s[i]]

\* Iterator::find: the first record of the list that the closure accepts, as an
\* Option (<<>> is None); at is its place in the list
Found(records, hits) ==
    IF hits = {} THEN [some |-> FALSE, at |-> 0]
    ELSE [some |-> TRUE, at |-> CHOOSE i \in hits : \A j \in hits : i <= j]

\* Db::get_table (main.rs 73-80), before the unwrap
Db_get_table(records, table_name) ==
    Found(records,
          { i \in 1..Len(records) :
              to_ascii_lowercase(records[i].table_name) = to_ascii_lowercase(table_name) })

\* Db::get_index_for_column_and_table (main.rs 271-284)
Db_get_index_for_column_and_table(records, table, column_name) ==
    Found(records,
          { i \in 1..Len(records) :
              /\ records[i].table_name = table
              /\ \E c \in 1..Len(records[i].columns) : records[i].columns[c] = column_name
              /\ records[i].table_type = <<"i", "n", "d", "e", "x">> })

\* MasterPageRecord::get_column_index (main.rs 1300-1305), before the unwrap:
\* Iterator::position
MasterPageRecord_get_column_index(columns, column_name) ==
    Found(columns, { c \in 1..Len(columns) : columns[c] = column_name })

NoLookup ==
    [fn |-> "none", table |-> <<>>, column |-> <<>>, of |-> 0, status |-> "idle", at |-> 0]

LookupIdle == lookup = NoLookup

\* the spellings of a name that differ in the case of its letters: as it is
\* stored, in capitals (what the lexer makes of an identifier) and in small letters
Variants(name) == { name, to_ascii_uppercase(name), to_ascii_lowercase(name) }

CatalogLoaded == catalog.command = "new" /\ catalog.status = "done"

\* db.get_table(name) for a spelling of the table name of an entry
lookup_table ==
    /\ CatalogLoaded
    /\ lookup = NoLookup
    /\ \E i \in 1..Len(catalog.records) :
         \E table_name \in Variants(catalog.records[i].table_name) :
            \E found \in { Db_get_table(catalog.records, table_name) } :
               lookup' = [fn |-> "get_table", table |-> table_name, column |-> <<>>,
                          of |-> i,
                          status |-> IF found.some THEN "some" ELSE "panic",
                          at |-> found.at]
    /\ UNCHANGED <<parser, cell, pager>>
    /\ UNCHANGED not_unit

\* db.get_index_for_column_and_table(table, column) for a spelling of the table
\* name of an index and a spelling of one of its columns
lookup_index ==
    /\ CatalogLoaded
    /\ lookup = NoLookup
    /\ \E i \in 1..Len(catalog.records) :
         /\ catalog.records[i].table_type = <<"i", "n", "d", "e", "x">>
         /\ \E table \in Variants(catalog.records[i].table_name),
               c \in 1..Len(declared[i].columns) :
              \E column_name \in Variants(declared[i].columns[c].text) :
                 \E found \in { Db_get_index_for_column_and_table(catalog.records,
                                                                  table, column_name) } :
                    lookup' = [fn |-> "get_index_for_column_and_table", table |-> table,
                               column |-> column_name, of |-> i,
                               status |-> IF found.some THEN "some" ELSE "none",
                               at |-> found.at]
    /\ UNCHANGED <<parser, cell, pager>>
    /\ UNCHANGED not_unit

\* record.get_column_index(column) for a spelling of a column of an entry
lookup_column ==
    /\ CatalogLoaded
    /\ lookup = NoLookup
    /\ \E i \in 1..Len(catalog.records) :
         \E c \in 1..Len(catalog.records[i].columns) :
            \E column_name \in Variants(catalog.records[i].columns[c]) :
               \E found \in { MasterPageRecord_get_column_index(catalog.records[i].columns,
                                                                column_name) } :
                  lookup' = [fn |-> "get_column_index", table |-> <<>>,
                             column |-> column_name, of |-> i,
                             status |-> IF found.some THEN "some" ELSE "panic",
                             at |-> found.at]
    /\ UNCHANGED <<parser, cell, pager>>
    /\ UNCHANGED not_unit

\* Db::new and then one lookup
NextLookup ==
    \/ Db_new
    \/ MasterPageRecord_parse
    \/ collect
    \/ lookup_table
    \/ lookup_index
    \/ lookup_column

\* the schemas of the lookups: a table and an index on it, their columns
\* taken from the same names
LookupTableNames == TableNames \cup { Name(<<"T">>, <<"T">>, FALSE) }

LookupSchemas ==
    { << [kind |-> "table", name |-> n, columns |-> ColumnDecls(names, 1, 1)],
         [kind |-> "index", name |-> Name(<<"i", "d", "x", "_", "t">>, <<"I", "D", "X", "_", "T">>, FALSE),
          on |-> n, columns |-> cols] >> :
        n \in LookupTableNames,
        names \in { c \in SeqsUpTo(IndexColumnNames, MaxColumns) : c # <<>> /\ DistinctNames(c) },
        cols \in { c \in SeqsUpTo(IndexColumnNames, MaxColumns) : c # <<>> /\ DistinctNames(c) } }

InitLookup ==
    \E schema \in LookupSchemas :
        /\ declared = schema
        /\ master_page = [i \in 1..Len(schema) |-> SchemaRow(schema[i], i + 1)]
        /\ catalog = NoCatalog
        /\ lookup = NoLookup




----------------------------------------------------------------------------
(* Records: ByteReader on a slice, From<u64> for DataType, DataType::parse, *)
(* DataSpecification::parse and TableLeafRecord::parse.  A reader is a      *)
(* buffer and a position in it; every function returns the position it has  *)
(* reached, or ok = FALSE for a panic.                                      *)

Blob(s) == [t |-> "Blob", b |-> s, n |-> ToU64(0)]

\* a u64 given by its 64 bits, as its 8 bytes
BitsAsU64(bits) ==
    [k \in 1..8 |->
        bits[8 * k - 7] + 2 * bits[8 * k - 6] + 4 * bits[8 * k - 5] + 8 * bits[8 * k - 4]
        + 16 * bits[8 * k - 3] + 32 * bits[8 * k - 2] + 64 * bits[8 * k - 1]
        + 128 * bits[8 * k]]

\* `x as usize` for a u64 below 2^24 (three bytes); Huge for a larger one: no
\* buffer of the model has that many bytes
Huge == 16777216

AsUsize(a) ==
    IF \E i \in 4..Len(a) : a[i] # 0 THEN Huge
    ELSE a[1] + 256 * a[2] + 65536 * a[3]

\* the loop of ByteReader::read_varint (main.rs 422-444) on a slice
RECURSIVE read_varint_loop(_, _, _, _, _)
read_varint_loop(buf, pos, n, shift_, size_) ==
    IF pos >= Len(buf) \/ shift_ >= 64 THEN [ok |-> FALSE, n |-> ToU64(0), size |-> 0, pos |-> pos]
    ELSE IF buf[pos + 1] < 128
         THEN [ok |-> TRUE,
               n |-> BitsAsU64(BitOr(Shl(n, shift_), ByteAsU64(buf[pos + 1]))),
               size |-> size_ + 1, pos |-> pos + 1]
    ELSE read_varint_loop(buf, pos + 1,
                          BitOr(Shl(n, shift_), ByteAsU64(buf[pos + 1] - 128)),
                          shift_ + 7, size_ + 1)

\* ByteReader::read_varint: (n, size) and the position after it
ReadVarint(buf, pos) == read_varint_loop(buf, pos, Zero64, 0, 0)

\* Read::read_exact(..).unwrap() of k bytes succeeds
CanRead(buf, pos, k) == pos + k <= Len(buf)

\* String::from_utf8(buf) is Ok: the bytes are well-formed UTF-8
RECURSIVE from_utf8_ok(_)
from_utf8_ok(b) ==
    LET cont(i) == i <= Len(b) /\ b[i] >= 128 /\ b[i] <= 191
    IN  IF b = <<>> THEN TRUE
        ELSE IF b[1] < 128 THEN from_utf8_ok(Tail(b))
        ELSE IF b[1] >= 194 /\ b[1] <= 223
             THEN cont(2) /\ from_utf8_ok(SubSeq(b, 3, Len(b)))
        ELSE IF b[1] >= 224 /\ b[1] <= 239
             THEN /\ cont(2) /\ cont(3)
                  /\ (b[1] = 224 => b[2] >= 160)
                  /\ (b[1] = 237 => b[2] <= 159)
                  /\ from_utf8_ok(SubSeq(b, 4, Len(b)))
        ELSE IF b[1] >= 240 /\ b[1] <= 244
             THEN /\ cont(2) /\ cont(3) /\ cont(4)
                  /\ (b[1] = 240 => b[2] >= 144)
                  /\ (b[1] = 244 => b[2] <= 143)
                  /\ from_utf8_ok(SubSeq(b, 5, Len(b)))
        ELSE FALSE

\* DataType
DataType(type, size_) == [type |-> type, size |-> size_]

\* a DataType that takes the even codes for Text and the odd ones for Blob
DataTypeFrom_Swapped(byte) ==
    IF UGe(ToU64(9), byte)
    THEN DataType(<<"Null", "Int8", "Int16", "Int24", "Int32", "Int48", "Int64", "Float",
                    "Zero", "One">>[byte[1] + 1], 0)
    ELSE IF UGe(byte, ToU64(12)) /\ byte[1] % 2 = 0
    THEN DataType("Text", (AsUsize(byte) - 12) \div 2)
    ELSE IF UGe(byte, ToU64(13)) /\ byte[1] % 2 = 1
    THEN DataType("Blob", (AsUsize(byte) - 13) \div 2)
    ELSE DataType("panic", 0)

\* impl From<u64> for DataType (main.rs 1104-1128); "panic" for 10 and 11
DataTypeFrom(byte) ==
    CASE byte = ToU64(0) -> DataType("Null", 0)
      [] byte = ToU64(1) -> DataType("Int8", 0)
      [] byte = ToU64(2) -> DataType("Int16", 0)
      [] byte = ToU64(3) -> DataType("Int24", 0)
      [] byte = ToU64(4) -> DataType("Int32", 0)
      [] byte = ToU64(5) -> DataType("Int48", 0)
      [] byte = ToU64(6) -> DataType("Int64", 0)
      [] byte = ToU64(7) -> DataType("Float", 0)
      [] byte = ToU64(8) -> DataType("Zero", 0)
      [] byte = ToU64(9) -> DataType("One", 0)
      [] OTHER ->
           IF UGe(byte, ToU64(12)) /\ byte[1] % 2 = 0
           THEN DataType("Blob", IF AsUsize(byte) = Huge THEN Huge
                                 ELSE (AsUsize(byte) - 12) \div 2)
           ELSE IF UGe(byte, ToU64(13)) /\ byte[1] % 2 = 1
           THEN DataType("Text", IF AsUsize(byte) = Huge THEN Huge
                                 ELSE (AsUsize(byte) - 13) \div 2)
           ELSE DataType("panic", 0)

\* iN::from_be_bytes(buf) as i64: the bytes lowest first, the sign bit of the
\* highest byte copied into the bytes above
SignExtended(be) ==
    [i \in 1..8 |-> IF i <= Len(be) THEN be[Len(be) + 1 - i]
                    ELSE IF be[1] >= 128 THEN 255 ELSE 0]

\* i32::from_be_bytes([0, ..]) / i64::from_be_bytes([0, 0, ..]): the bytes above
\* are zero
ZeroExtended(be) ==
    [i \in 1..8 |-> IF i <= Len(be) THEN be[Len(be) + 1 - i] ELSE 0]

\* the number of bytes DataType::parse reads for a type
Width(data_type) ==
    CASE data_type.type = "Int8" -> 1
      [] data_type.type = "Int16" -> 2
      [] data_type.type = "Int24" -> 3
      [] data_type.type = "Int32" -> 4
      [] data_type.type = "Int48" -> 6
      [] data_type.type \in {"Int64", "Float"} -> 8
      [] data_type.type \in {"Blob", "Text"} -> data_type.size
      [] OTHER -> 0

\* DataType::parse (main.rs 1068-1101): the Value and the position after it
DataType_parse(data_type, buf, pos) ==
    IF ~CanRead(buf, pos, Width(data_type)) THEN [ok |-> FALSE, value |-> NullV, pos |-> pos]
    ELSE CHOOSE returned \in
        { CASE data_type.type = "Null" -> [ok |-> TRUE, value |-> NullV, pos |-> pos]
            [] data_type.type \in {"Int8", "Int16", "Int32", "Int64"} ->
                 [ok |-> TRUE, value |-> IntV(SignExtended(body)), pos |-> pos + Len(body)]
            [] data_type.type \in {"Int24", "Int48"} ->
                 [ok |-> TRUE, value |-> IntV(ZeroExtended(body)), pos |-> pos + Len(body)]
            [] data_type.type = "Float" ->
                 [ok |-> TRUE, value |-> IntV(Reverse(body)), pos |-> pos + Len(body)]
            [] data_type.type = "Zero" -> [ok |-> TRUE, value |-> IntV(ToU64(0)), pos |-> pos]
            [] data_type.type = "One" -> [ok |-> TRUE, value |-> IntV(ToU64(1)), pos |-> pos]
            [] data_type.type = "Blob" ->
                 [ok |-> TRUE, value |-> Blob(body), pos |-> pos + Len(body)]
            [] OTHER ->
                 [ok |-> from_utf8_ok(body), value |-> Text(body), pos |-> pos + Len(body)] :
          body \in { SubSeq(buf, pos + 1, pos + Width(data_type)) } } : TRUE

\* the loop of DataSpecification::parse over the bytes of the header: the types
RECURSIVE read_types(_, _, _)
read_types(buf, pos, types) ==
    IF pos >= Len(buf) THEN [ok |-> TRUE, types |-> types]
    ELSE CHOOSE returned \in
        { IF ~v.ok \/ DataTypeFrom(v.n).type = "panic" THEN [ok |-> FALSE, types |-> <<>>]
          ELSE read_types(buf, v.pos, Append(types, DataTypeFrom(v.n))) :
          v \in { ReadVarint(buf, pos) } } : TRUE

\* DataSpecification::parse(reader, size) (main.rs 1146-1163)
DataSpecification_parse(buf, pos, size_) ==
    IF ~CanRead(buf, pos, size_) THEN [ok |-> FALSE, types |-> <<>>, pos |-> pos]
    ELSE CHOOSE returned \in
        { [ok |-> t.ok, types |-> t.types, pos |-> pos + size_] :
          t \in { read_types(SubSeq(buf, pos + 1, pos + size_), 0, <<>>) } } : TRUE

\* values = types.iter().map(|data_type| data_type.parse(&mut payload))
RECURSIVE parse_values(_, _, _, _)
parse_values(types, buf, pos, values) ==
    IF types = <<>> THEN [ok |-> TRUE, values |-> values, pos |-> pos]
    ELSE CHOOSE returned \in
        { IF ~v.ok THEN [ok |-> FALSE, values |-> <<>>, pos |-> pos]
          ELSE parse_values(Tail(types), buf, v.pos, Append(values, v.value)) :
          v \in { DataType_parse(Head(types), buf, pos) } } : TRUE

\* the payload of a table leaf or index record: the header size, the types and
\* the values; rest is what is left of the payload
parse_payload(payload) ==
    CHOOSE returned \in
        { IF ~h.ok \/ AsUsize(h.n) < h.size
          THEN [ok |-> FALSE, types |-> <<>>, values |-> <<>>, rest |-> <<>>]
          ELSE CHOOSE specified \in
              { IF ~spec.ok THEN [ok |-> FALSE, types |-> <<>>, values |-> <<>>, rest |-> <<>>]
                ELSE CHOOSE valued \in
                    { [ok |-> vs.ok, types |-> spec.types, values |-> vs.values,
                       rest |-> SubSeq(payload, vs.pos + 1, Len(payload))] :
                      vs \in { parse_values(spec.types, payload, spec.pos, <<>>) } } : TRUE :
                spec \in { DataSpecification_parse(payload, h.pos, AsUsize(h.n) - h.size) } } :
              TRUE :
          h \in { ReadVarint(payload, 0) } } : TRUE

NoRecord ==
    [ok |-> FALSE, row_id |-> ToU64(0), types |-> <<>>, values |-> <<>>, rest |-> <<>>, pos |-> 0]

\* TableLeafRecord::parse (main.rs 1165-1194) with the reader at pos
TableLeafRecord_parse(buf, pos) ==
    CHOOSE returned \in
        { IF ~size_.ok THEN NoRecord
          ELSE CHOOSE with_id \in
              { IF ~row_id.ok \/ ~CanRead(buf, row_id.pos, AsUsize(size_.n)) THEN NoRecord
                ELSE CHOOSE with_payload \in
                    { [ok |-> p.ok, row_id |-> row_id.n, types |-> p.types,
                       values |-> p.values, rest |-> p.rest,
                       pos |-> row_id.pos + AsUsize(size_.n)] :
                      p \in { parse_payload(SubSeq(buf, row_id.pos + 1,
                                                   row_id.pos + AsUsize(size_.n))) } } : TRUE :
                row_id \in { ReadVarint(buf, size_.pos) } } : TRUE :
          size_ \in { ReadVarint(buf, pos) } } : TRUE

\* the varint of a number below 2^14
Varint(x) == VarintEncode(IF x < 128 THEN <<x>> ELSE <<x \div 128, x % 128>>)

RECURSIVE Flatten(_)
Flatten(parts) == IF parts = <<>> THEN <<>> ELSE Head(parts) \o Flatten(Tail(parts))

\* a column of a cell as SQLite writes it: its serial type code and its body
Column(code, body) == [code |-> code, body |-> body]

\* the payload of a cell: the record header (its own size, then the codes) and
\* the bodies
EncodePayload(columns) ==
    LET codes == Flatten([i \in 1..Len(columns) |-> Varint(columns[i].code)])
        bodies == Flatten([i \in 1..Len(columns) |-> columns[i].body])
    IN  Varint(1 + Len(codes)) \o codes \o bodies

\* a table leaf cell: the payload size, the row id and the payload; after is
\* what follows the cell in the page
EncodeCell(columns, row_id, after) ==
    Varint(Len(EncodePayload(columns))) \o Varint(row_id) \o EncodePayload(columns) \o after

LongText == [i \in 1..58 |-> 120]

\* the columns of the model: every code from 0 to 14, a text with a character
\* of two bytes, and a text whose code takes two bytes
Columns ==
    { Column(0, <<>>),
      Column(1, <<5>>), Column(1, <<255>>),
      Column(2, <<255, 254>>),
      Column(3, <<1, 2, 3>>), Column(3, <<255, 255, 255>>),
      Column(4, <<128, 0, 0, 1>>),
      Column(5, <<0, 0, 0, 1, 0, 0>>), Column(5, <<255, 255, 255, 255, 255, 254>>),
      Column(6, <<255, 255, 255, 255, 255, 255, 255, 253>>),
      Column(7, <<63, 240, 0, 0, 0, 0, 0, 0>>),
      Column(8, <<>>), Column(9, <<>>),
      Column(10, <<>>), Column(11, <<>>),
      Column(12, <<>>), Column(14, <<200>>),
      Column(13, <<>>), Column(19, <<195, 169, 97>>),
      Column(129, LongText) }

NoCell ==
    [columns |-> <<>>, row_id |-> 0, after |-> <<>>, bytes |-> <<>>, status |-> "idle",
     parsed |-> NoRecord]

RecordIdle == cell = NoCell

InitRecord ==
    \E columns \in SeqsUpTo(Columns, MaxValues), row_id \in {1, 300}, after \in {<<>>, <<13>>} :
        cell = [columns |-> columns, row_id |-> row_id, after |-> after,
                bytes |-> EncodeCell(columns, row_id, after), status |-> "cell",
                parsed |-> NoRecord]

\* TableLeafRecord::parse on the bytes of the cell
parse_record ==
    /\ cell.status = "cell"
    /\ \E r \in { TableLeafRecord_parse(cell.bytes, 0) } :
          cell' = [cell EXCEPT !.status = IF r.ok THEN "parsed" ELSE "panic",
                               !.parsed = IF r.ok THEN r ELSE NoRecord]
    /\ UNCHANGED <<lookup, parser, pager>>
    /\ UNCHANGED not_unit

NextRecord == parse_record

----------------------------------------------------------------------------
(* Pages: DbPageHeader::parse, the parse of the four kinds of cell,          *)
(* DbPage::parse and DbPage::parse_master on the bytes of a file and the     *)
(* cursor of the open File.  Every function returns the cursor it leaves.    *)

\* a reader that never moves on a seek
Seek_Stay(cursor, to) == cursor

\* reader.seek(SeekFrom::Start(to)): the cursor after it
Seek(cursor, to) == to

\* u16::from_be_bytes of the two bytes at pos
read_u16(buf, pos) == 256 * buf[pos + 1] + buf[pos + 2]

\* u32::from_be_bytes of the four bytes at pos, as a u32
read_u32(buf, pos) == Reverse(SubSeq(buf, pos + 1, pos + 4))

\* impl From<u8> for PageType
PageType(byte) ==
    CASE byte = 2 -> "InteriorIndex"
      [] byte = 5 -> "InteriorTable"
      [] byte = 10 -> "LeafIndex"
      [] byte = 13 -> "LeafTable"
      [] OTHER -> "panic"

NoPageHeader == [ok |-> FALSE, page_type |-> "panic", rightmost_pointer |-> None,
                 cells |-> <<>>, pos |-> 0]

\* DbPageHeader::parse (main.rs 710-760)
DbPageHeader_parse(buf, pos) ==
    IF ~CanRead(buf, pos, 8) \/ PageType(buf[pos + 1]) = "panic" THEN NoPageHeader
    ELSE LET page_type == PageType(buf[pos + 1])
             cell_count == read_u16(buf, pos + 3)
             cells_at == IF page_type \in {"InteriorIndex", "InteriorTable"}
                         THEN pos + 12 ELSE pos + 8
         IN  IF ~CanRead(buf, pos, cells_at - pos + 2 * cell_count) THEN NoPageHeader
             ELSE [ok |-> TRUE, page_type |-> page_type,
                   rightmost_pointer |-> IF cells_at = pos + 12 THEN read_u32(buf, pos + 8)
                                         ELSE None,
                   cells |-> [i \in 1..cell_count |-> read_u16(buf, cells_at + 2 * (i - 1))],
                   pos |-> cells_at + 2 * cell_count]

NoCellRecord == [ok |-> FALSE, record |-> <<>>, pos |-> 0]

\* DbRecord::parse_table_leaf_record
parse_table_leaf_record(buf, pos) ==
    CHOOSE returned \in
        { IF ~r.ok THEN NoCellRecord
          ELSE [ok |-> TRUE, record |-> TableLeafRecord(r.row_id, r.values), pos |-> r.pos] :
          r \in { TableLeafRecord_parse(buf, pos) } } : TRUE

\* the length, the payload and its values: IndexLeafRecord::parse, and
\* InteriorIndexRecord::parse after the child pointer
parse_key(buf, pos) ==
    CHOOSE returned \in
        { IF ~length.ok \/ ~CanRead(buf, length.pos, AsUsize(length.n))
          THEN [ok |-> FALSE, values |-> <<>>, pos |-> pos]
          ELSE CHOOSE with_payload \in
              { [ok |-> p.ok, values |-> p.values, pos |-> length.pos + AsUsize(length.n)] :
                p \in { parse_payload(SubSeq(buf, length.pos + 1,
                                             length.pos + AsUsize(length.n))) } } : TRUE :
          length \in { ReadVarint(buf, pos) } } : TRUE

\* DbRecord::parse_index_leaf_record
parse_index_leaf_record(buf, pos) ==
    CHOOSE returned \in
        { IF ~k.ok THEN NoCellRecord
          ELSE [ok |-> TRUE, record |-> IndexLeafRecord(k.values), pos |-> k.pos] :
          k \in { parse_key(buf, pos) } } : TRUE

\* DbRecord::parse_table_index_record
parse_table_index_record(buf, pos) ==
    IF ~CanRead(buf, pos, 4) THEN NoCellRecord
    ELSE CHOOSE returned \in
        { IF ~key.ok THEN NoCellRecord
          ELSE [ok |-> TRUE, record |-> InteriorTableRecord(read_u32(buf, pos), key.n),
                pos |-> key.pos] :
          key \in { ReadVarint(buf, pos + 4) } } : TRUE

\* DbRecord::parse_index_interior_record
parse_index_interior_record(buf, pos) ==
    IF ~CanRead(buf, pos, 4) THEN NoCellRecord
    ELSE CHOOSE returned \in
        { IF ~k.ok THEN NoCellRecord
          ELSE [ok |-> TRUE, record |-> InteriorIndexRecord(read_u32(buf, pos), k.values),
                pos |-> k.pos] :
          k \in { parse_key(buf, pos + 4) } } : TRUE

\* the loop `for cell in &header.cells` of parse_leaf_table_page and the three
\* others, and of parse_master (page_offset 0, table leaf cells)
RECURSIVE parse_cells(_, _, _, _, _, _)
parse_cells(page_type, buf, cursor, page_offset, cells, records) ==
    IF cells = <<>> THEN [ok |-> TRUE, records |-> records, cursor |-> cursor]
    ELSE CHOOSE returned \in
        { IF ~r.ok THEN [ok |-> FALSE, records |-> <<>>, cursor |-> cursor]
          ELSE parse_cells(page_type, buf, r.pos, page_offset, Tail(cells),
                           Append(records, r.record)) :
          r \in { CASE page_type = "LeafTable" -> parse_table_leaf_record(buf, at)
                    [] page_type = "LeafIndex" -> parse_index_leaf_record(buf, at)
                    [] page_type = "InteriorTable" -> parse_table_index_record(buf, at)
                    [] OTHER -> parse_index_interior_record(buf, at) :
                  at \in { Seek(cursor, page_offset + Head(cells)) } } } : TRUE

NoPage == [ok |-> FALSE, page |-> DbPage("panic", <<>>, None), cursor |-> 0]

\* DbPage::parse(reader, page_offset) (main.rs 770-781)
DbPage_parse(buf, cursor, page_offset) ==
    CHOOSE returned \in
        { IF ~header_.ok THEN NoPage
          ELSE CHOOSE with_records \in
              { IF ~rs.ok THEN NoPage
                ELSE [ok |-> TRUE,
                      page |-> DbPage(header_.page_type, rs.records, header_.rightmost_pointer),
                      cursor |-> rs.cursor] :
                rs \in { parse_cells(header_.page_type, buf, header_.pos, page_offset,
                                     header_.cells, <<>>) } } : TRUE :
          header_ \in { DbPageHeader_parse(buf, Seek(cursor, page_offset)) } } : TRUE

\* DbPage::parse_master(reader) (main.rs 854-866)
DbPage_parse_master(buf, cursor) ==
    CHOOSE returned \in
        { IF ~header_.ok THEN NoPage
          ELSE CHOOSE with_records \in
              { IF ~rs.ok THEN NoPage
                ELSE [ok |-> TRUE,
                      page |-> DbPage(header_.page_type, rs.records, header_.rightmost_pointer),
                      cursor |-> rs.cursor] :
                rs \in { parse_cells("LeafTable", buf, header_.pos, 0, header_.cells,
                                     <<>>) } } : TRUE :
          header_ \in { DbPageHeader_parse(buf, Seek(cursor, 100)) } } : TRUE

\* The bytes of a file.  A value as SQLite stores it: NULL, an integer of one
\* byte (0..127), a text
EncodeValue(v) ==
    CASE v.t = "Null" -> Column(0, <<>>)
      [] v.t = "Int" -> Column(1, <<v.n[1]>>)
      [] OTHER -> Column(13 + 2 * Len(v.b), v.b)

\* an index cell: the size of the payload and the payload
EncodeKey(values) ==
    LET payload == EncodePayload([i \in 1..Len(values) |-> EncodeValue(values[i])])
    IN  Varint(Len(payload)) \o payload

\* a cell of a page
EncodeRecord(record) ==
    CASE record.kind = "TableLeafRecord" ->
           EncodeCell([i \in 1..Len(record.values) |-> EncodeValue(record.values[i])],
                      AsUsize(record.row_id), <<>>)
      [] record.kind = "IndexLeafRecord" -> EncodeKey(record.values)
      [] record.kind = "InteriorTableRecord" ->
           Reverse(record.left_child) \o Varint(AsUsize(record.key))
      [] OTHER -> Reverse(record.left_child) \o EncodeKey(record.values)

PageTypeByte(page_type) ==
    CASE page_type = "InteriorIndex" -> 2
      [] page_type = "InteriorTable" -> 5
      [] page_type = "LeafIndex" -> 10
      [] OTHER -> 13

\* the bytes of a page of psize bytes after the first `start` bytes of it (100
\* on page 1): the page header, the cell pointers, and the cells at the end of
\* the page, the first cell last ("down", as SQLite fills a page) or first
\* ("up")
EncodePage(page, psize, start, layout) ==
    LET cells == [i \in 1..Len(page.records) |-> EncodeRecord(page.records[i])]
        n == Len(cells)
        at(i) == IF layout = "down" THEN psize - Len(Flatten(SubSeq(cells, 1, i)))
                 ELSE psize - Len(Flatten(SubSeq(cells, i, n)))
        be16(x) == <<x \div 256, x % 256>>
        head == <<PageTypeByte(page.page_type), 0, 0>> \o be16(n)
                \o be16(psize - Len(Flatten(cells))) \o <<0>>
                \o Reverse(page.rightmost_pointer)
                \o Flatten([i \in 1..n |-> be16(at(i))])
        byte(k) ==
            IF k - start <= Len(head) THEN head[k - start]
            ELSE IF \E i \in 1..n : at(i) < k /\ k <= at(i) + Len(cells[i])
            THEN LET c == CHOOSE i \in 1..n : at(i) < k /\ k <= at(i) + Len(cells[i])
                 IN  cells[c][k - at(c)]
            ELSE 0
    IN  [j \in 1..(psize - start) |-> byte(start + j)]

\* the master page of the files of the model: the table and its index
MasterPage ==
    DbPage("LeafTable",
           << TableLeafRecord(ToU64(1),
                  <<Text(<<116, 97, 98, 108, 101>>), Text(<<116>>), Text(<<116>>), IntV(ToU64(TableRoot)),
                    Text(<<67, 82, 69, 65, 84, 69, 32, 84, 65, 66, 76, 69, 32, 116, 32, 40, 105, 100, 32, 105, 110, 116, 101, 103, 101, 114, 32, 112, 114, 105, 109, 97, 114, 121, 32, 107, 101, 121, 44, 32, 99, 32, 116, 101, 120, 116, 41>>)>>),
              TableLeafRecord(ToU64(2),
                  <<Text(<<105, 110, 100, 101, 120>>), Text(<<105, 100, 120, 95, 116, 95, 99>>), Text(<<116>>), IntV(ToU64(IndexRoot)),
                    Text(<<67, 82, 69, 65, 84, 69, 32, 73, 78, 68, 69, 88, 32, 105, 100, 120, 95, 116, 95, 99, 32, 111, 110, 32, 116, 32, 40, 99, 41>>)>>) >>,
           None)

\* the file of the pages: the database header, the master page, and page p at
\* offset (p - 1) * psize; a page number without a page is a page of zeros
FileBytes(pages, psize, layout) ==
    LET last == CHOOSE p \in DOMAIN pages : \A q \in DOMAIN pages : q <= p
        first == HeaderBytes(Magic, <<psize \div 256, psize % 256>>, 1, 1, <<64, 32, 32>>,
                             4, 1, <<0, 0>>)
                 \o EncodePage(MasterPage, psize, 100, layout)
    IN  first \o Flatten([p \in 1..(last - 1) |->
                             IF (p + 1) \in DOMAIN pages
                             THEN EncodePage(pages[p + 1], psize, 0, layout)
                             ELSE [k \in 1..psize |-> 0]])

NoRead == [page |-> 0, back |-> FALSE, ok |-> TRUE, returned |-> DbPage("panic", <<>>, None)]

PagerIdle ==
    pager = [pages |-> <<>>, page_size |-> 0, file |-> <<>>, cursor |-> 0, read |-> NoRead]

\* a file is open, nothing read yet
InitPager ==
    \E vals \in [1..MaxRows -> Keys], cuts \in {{}, 1..(MaxRows - 1)},
       seps \in Separators(MaxRows), psize \in PageSizes, layout \in {"down", "up"} :
        LET rws == BuildRows(MaxRows, vals)
            pages == Merge(TablePages(rws, cuts), IndexPages(EntriesByKey(rws, Keys), seps))
        IN  pager = [pages |-> pages, page_size |-> psize,
                     file |-> FileBytes(pages, psize, layout), cursor |-> 0,
                     read |-> NoRead]

PagerOpen == pager.file # <<>> /\ pager.read.ok

\* Db::new: DbPage::parse_master on the file
read_master ==
    /\ PagerOpen
    /\ \E r \in { DbPage_parse_master(pager.file, pager.cursor) } :
          pager' = [pager EXCEPT
                      !.cursor = IF r.ok THEN r.cursor ELSE @,
                      !.read = [page |-> 1, back |-> pager.cursor > 100, ok |-> r.ok,
                                returned |-> r.page]]
    /\ UNCHANGED <<lookup, parser, cell>>
    /\ UNCHANGED not_unit

\* Db::load_table_at_page(page): DbPage::parse at the offset of the page; back
\* tells that the cursor stood after that offset
read_page ==
    /\ PagerOpen
    /\ \E page \in DOMAIN pager.pages :
        \E page_offset \in { AsUsize(PageOffset(ToU64(page), pager.page_size)) } :
        \E r \in { DbPage_parse(pager.file, pager.cursor, page_offset) } :
          pager' = [pager EXCEPT
                      !.cursor = IF r.ok THEN r.cursor ELSE @,
                      !.read = [page |-> page, back |-> pager.cursor > page_offset,
                                ok |-> r.ok, returned |-> r.page]]
    /\ UNCHANGED <<lookup, parser, cell>>
    /\ UNCHANGED not_unit

NextPager ==
    \/ read_master
    \/ read_page

----------------------------------------------------------------------------
(* The parser step by step: Parser::parse and Parser::parse_create as a      *)
(* machine that stops at the head of every loop of parser.rs.  A step is one *)
(* iteration of the loop the parser is in, up to the head of the loop it     *)
(* reaches next: the same loop, a loop inside it, or a loop around it.  The  *)
(* Ast is left out; position and the calls of parse_expr that have not       *)
(* returned (stack) are kept.                                                *)

\* where the parser goes on: the loop (or "ok" for a return of the entry
\* function), the position and the stack
Goes(pc, position, stack_) == [pc |-> pc, position |-> position, stack |-> stack_]

Panics == Goes("panic", 0, <<>>)

\* a statement has been parsed. parse_statement takes a semicolon and
\* parse_statements breaks on Eof (parser.rs 115-123, 137-139); parse_create
\* returns
StatementParsed(tokens, entry, position) ==
    IF entry = "parse_create" THEN Goes("ok", position, <<>>)
    ELSE LET after == IF peek_token(tokens, position).type = "Semicolon"
                      THEN position + 1 ELSE position
         IN  IF peek_token(tokens, after) = Eof THEN Goes("ok", after, <<>>)
             ELSE Goes("statement", after, <<>>)

\* parse_expr has returned at position to the call on top of the stack: the
\* right-hand side of a binary operator (and that parse_expr returns), an
\* argument of a function (parser.rs 248-255), a result column (153-156), or
\* the WHERE expression
RECURSIVE ExprReturns(_, _, _, _)
ExprReturns(tokens, entry, position, stack_) ==
    LET top == stack_[Len(stack_)]
        below == SubSeq(stack_, 1, Len(stack_) - 1)
    IN  CASE top = "rhs" -> ExprReturns(tokens, entry, position, below)
          [] top = "args" ->
               IF peek_token(tokens, position).type = "Comma"
               THEN Goes("argument", position + 1, stack_)
               ELSE IF CanConsume(tokens, position, "RParen")
               THEN ExprReturns(tokens, entry, position + 1, below)
               ELSE Panics
          [] top = "column" ->
               Goes("result_column",
                    IF peek_token(tokens, position).type = "Comma"
                    THEN position + 1 ELSE position,
                    <<>>)
          [] OTHER -> StatementParsed(tokens, entry, position)

\* parse_expr is called at position (parser.rs 197-224)
RECURSIVE ExprCalled(_, _, _, _)
ExprCalled(tokens, entry, position, stack_) ==
    IF peek_token(tokens, position).type = "Identifier"
    THEN IF peek_token(tokens, position + 1).type = "LParen"
         THEN Goes("argument", position + 2, Append(stack_, "args"))
         ELSE IF peek_token(tokens, position + 1).type = "Equals"
         THEN ExprCalled(tokens, entry, position + 2, Append(stack_, "rhs"))
         ELSE ExprReturns(tokens, entry, position + 1, stack_)
    ELSE IF peek_token(tokens, position).type = "StringLiteral"
    THEN ExprReturns(tokens, entry, position + 1, stack_)
    ELSE Panics

\* parse_create, parse_create_table and parse_create_index up to their loop
CreateCalled(tokens, entry, position) ==
    IF ~CanConsume(tokens, position, "Create") THEN Panics
    ELSE IF peek_token(tokens, position + 1).type = "Table"
    THEN IF ~IsName(peek_token(tokens, position + 2)) THEN Panics
         ELSE IF peek_token(tokens, position + 2).value
                     = <<"S", "Q", "L", "I", "T", "E", "_", "S", "E", "Q", "U", "E", "N", "C", "E">>
         THEN IF sqlite_sequence_hack(tokens, position + 3).st = "ok"
              THEN StatementParsed(tokens, entry, position + 8)
              ELSE Panics
         ELSE IF CanConsume(tokens, position + 3, "LParen")
         THEN Goes("column_def", position + 4, <<>>)
         ELSE Panics
    ELSE IF peek_token(tokens, position + 1).type = "Index"
    THEN IF /\ IsName(peek_token(tokens, position + 2))
            /\ CanConsume(tokens, position + 3, "On")
            /\ IsName(peek_token(tokens, position + 4))
            /\ CanConsume(tokens, position + 5, "LParen")
         THEN Goes("index_column", position + 6, <<>>)
         ELSE Panics
    ELSE Panics

\* the parser goes on at g; iterations counts the steps taken, modulo 2, so
\* that an iteration that changes nothing of the parser is a step all the same
GoOn(g) ==
    parser' = [parser EXCEPT !.pc = g.pc, !.position = g.position, !.stack = g.stack,
                             !.iterations = (@ + 1) % 2]

\* pub fn parse_create, called by MasterPageRecord::analyse_sql_for_column_order
parser_parse_create ==
    /\ parser.pc = "create"
    /\ GoOn(CreateCalled(parser.tokens, parser.entry, parser.position))
    /\ UNCHANGED <<lookup, cell, pager>>
    /\ UNCHANGED not_unit

\* an iteration of the loop of parse_statements: parse_statement
parser_parse_statement ==
    /\ parser.pc = "statement"
    /\ GoOn(IF peek_token(parser.tokens, parser.position).type = "Select"
            THEN Goes("result_column", parser.position + 1, <<>>)
            ELSE IF peek_token(parser.tokens, parser.position).type = "Create"
            THEN CreateCalled(parser.tokens, parser.entry, parser.position)
            ELSE Panics)
    /\ UNCHANGED <<lookup, cell, pager>>
    /\ UNCHANGED not_unit

\* an iteration of the while loop of parse_select, or the rest of parse_select
\* once the next token is FROM
parser_result_column ==
    /\ parser.pc = "result_column"
    /\ LET tokens == parser.tokens
           position == parser.position
       IN  GoOn(IF peek_token(tokens, position).type = "From"
                THEN IF ~CanConsume(tokens, position + 1, "Identifier") THEN Panics
                     ELSE IF peek_token(tokens, position + 2).type = "Where"
                     THEN ExprCalled(tokens, parser.entry, position + 3, <<"where">>)
                     ELSE StatementParsed(tokens, parser.entry, position + 2)
                ELSE IF peek_token(tokens, position).type = "Star"
                THEN Goes("result_column", position + 1, <<>>)
                ELSE ExprCalled(tokens, parser.entry, position, <<"column">>))
    /\ UNCHANGED <<lookup, cell, pager>>
    /\ UNCHANGED not_unit

\* an iteration of the loop of parse_function_arguments
parser_argument ==
    /\ parser.pc = "argument"
    /\ GoOn(IF peek_token(parser.tokens, parser.position).type = "Star"
            THEN ExprReturns(parser.tokens, parser.entry, parser.position + 1, parser.stack)
            ELSE ExprCalled(parser.tokens, parser.entry, parser.position, parser.stack))
    /\ UNCHANGED <<lookup, cell, pager>>
    /\ UNCHANGED not_unit

\* an iteration of the loop of parse_create_index
parser_index_column ==
    /\ parser.pc = "index_column"
    /\ LET tokens == parser.tokens
           position == parser.position
           at == IF peek_token(tokens, position).type = "Comma" THEN position + 1
                 ELSE position
       IN  GoOn(IF peek_token(tokens, position).type = "RParen"
                THEN StatementParsed(tokens, parser.entry, position + 1)
                ELSE IF IsName(peek_token(tokens, at))
                THEN Goes("index_column", at + 1, <<>>)
                ELSE Panics)
    /\ UNCHANGED <<lookup, cell, pager>>
    /\ UNCHANGED not_unit

\* the head of an iteration of the outer loop of parse_column_defs: the name
\* and the type of the column
parser_column_def ==
    /\ parser.pc = "column_def"
    /\ GoOn(IF /\ IsName(peek_token(parser.tokens, parser.position))
               /\ CanConsume(parser.tokens, parser.position + 1, "Identifier")
            THEN Goes("constraint", parser.position + 2, <<>>)
            ELSE Panics)
    /\ UNCHANGED <<lookup, cell, pager>>
    /\ UNCHANGED not_unit

\* an iteration of the inner loop of parse_column_defs (parser.rs 383-405); on
\* its break the end of the iteration of the outer loop, and on the break of
\* that the end of parse_create_table
parser_constraint ==
    /\ parser.pc = "constraint"
    /\ LET tokens == parser.tokens
           position == parser.position
           type == peek_token(tokens, position).type
       IN  GoOn(CASE type = "Primary" ->
                       Goes("constraint",
                            IF peek_next(tokens, position).type = "Key"
                            THEN position + 2 ELSE position, <<>>)
                  [] type = "Not" ->
                       Goes("constraint",
                            IF peek_next(tokens, position).type = "Null"
                            THEN position + 2 ELSE position, <<>>)
                  [] type = "AutoIncrement" -> Goes("constraint", position + 1, <<>>)
                  [] type = "Comma" -> Goes("column_def", position + 1, <<>>)
                  [] type = "RParen" -> StatementParsed(tokens, parser.entry, position + 1)
                  [] OTHER -> Panics)
    /\ UNCHANGED <<lookup, cell, pager>>
    /\ UNCHANGED not_unit

NextParser ==
    \/ parser_parse_create
    \/ parser_parse_statement
    \/ parser_result_column
    \/ parser_argument
    \/ parser_index_column
    \/ parser_column_def
    \/ parser_constraint

\* the statements the token streams of the model are made from
StatementTexts ==
    { <<"s", "e", "l", "e", "c", "t", " ", "a", ",", " ", "c", "o", "u", "n", "t", "(", "*", ")", " ", "f", "r", "o", "m", " ", "t", " ", "w", "h", "e", "r", "e", " ", "a", " ", "=", " ", "'", "x", "'", ";">>,
      <<"c", "r", "e", "a", "t", "e", " ", "t", "a", "b", "l", "e", " ", "t", " ", "(", "a", " ", "i", "n", "t", " ", "p", "r", "i", "m", "a", "r", "y", " ", "k", "e", "y", " ", "a", "u", "t", "o", "i", "n", "c", "r", "e", "m", "e", "n", "t", ",", " ", "b", " ", "t", "e", "x", "t", " ", "n", "o", "t", " ", "n", "u", "l", "l", ")">>,
      <<"c", "r", "e", "a", "t", "e", " ", "i", "n", "d", "e", "x", " ", "i", " ", "o", "n", " ", "t", " ", "(", "a", ",", " ", "b", ")">>,
      <<"s", "e", "l", "e", "c", "t", " ", "f", "(", "g", "(", "a", ")", ",", " ", "*", ")", ",", " ", "a", " ", "=", " ", "b", " ", "=", " ", "c", " ", "f", "r", "o", "m", " ", "t", ";", " ", "s", "e", "l", "e", "c", "t", " ", "*", " ", "f", "r", "o", "m", " ", "t">>,
      <<"c", "r", "e", "a", "t", "e", " ", "t", "a", "b", "l", "e", " ", "s", "q", "l", "i", "t", "e", "_", "s", "e", "q", "u", "e", "n", "c", "e", "(", "n", "a", "m", "e", ",", "s", "e", "q", ")">> }

\* the tokens a token of a stream is replaced by
OtherTokens ==
    { Token("Select"), Token("Create"), Token("Table"), Token("Index"), Token("On"),
      Token("From"), Token("Where"), Token("Primary"), Token("Key"), Token("Not"),
      Token("Null"), Token("AutoIncrement"), Token("LParen"), Token("RParen"),
      Token("Comma"), Token("Semicolon"), Token("Equals"), Token("Star"),
      Identifier(<<"Z">>), StringLiteral(<<"z">>) }

\* what Lexer::lex returns for a statement, and the streams that differ from it
\* in one token before the Eof: one token replaced, or one token missing
TokenStreams ==
    UNION { {l} \cup { [l EXCEPT ![i] = t] : i \in 1..(Len(l) - 1), t \in OtherTokens }
                \cup { SubSeq(l, 1, i - 1) \o SubSeq(l, i + 1, Len(l)) :
                       i \in 1..(Len(l) - 1) } :
            l \in { Lex(s).tokens : s \in StatementTexts } }

ParserIdle ==
    parser = [tokens |-> <<>>, entry |-> "none", pc |-> "idle", position |-> 0,
              stack |-> <<>>, iterations |-> 0]

\* Parser::new(tokens), and the function called on it
InitParser ==
    \E tokens \in TokenStreams, entry \in {"parse", "parse_create"} :
        parser = [tokens |-> tokens, entry |-> entry,
                  pc |-> IF entry = "parse" THEN "statement" ELSE "create",
                  position |-> 0, stack |-> <<>>, iterations |-> 0]

----------------------------------------------------------------------------
(* The units at rest *)

UnitsIdle == LookupIdle /\ ParserIdle /\ RecordIdle /\ PagerIdle

----------------------------------------------------------------------------
(* The specifications *)

NextBTree ==
    \/ get_table_rows
    \/ get_table_rows_return
    \/ fetch_rows_from_index
    \/ fetch_rows_from_index_fetch
    \/ ReturnNoTargets
    \/ ReturnFromCall
    \/ InteriorIndexCell
    \/ InteriorIndexRightmost
    \/ InteriorTableDirected
    \/ InteriorTableCell
    \/ LeafIndex
    \/ LeafTable

Init ==
    /\ InitBTree /\ InitQuery /\ ReaderIdle /\ VarintIdle /\ HeaderIdle /\ LexerIdle
    /\ CatalogIdle /\ SqlIdle /\ UnitsIdle

InitV ==
    /\ BTreeIdle /\ InitQuery /\ InitVarint /\ HeaderIdle /\ LexerIdle
    /\ CatalogIdle /\ SqlIdle /\ UnitsIdle

SpecVarint == InitV /\ [][NextVarint]_vars

InitH ==
    /\ BTreeIdle /\ InitQuery /\ VarintIdle /\ InitHeader /\ LexerIdle
    /\ CatalogIdle /\ SqlIdle /\ UnitsIdle

InitL ==
    /\ BTreeIdle /\ InitQuery /\ ReaderIdle /\ VarintIdle /\ HeaderIdle /\ InitLexer
    /\ CatalogIdle /\ SqlIdle /\ UnitsIdle

SpecLexer == InitL /\ [][NextLexer]_vars

InitLA ==
    /\ BTreeIdle /\ InitQuery /\ ReaderIdle /\ VarintIdle /\ HeaderIdle /\ InitLexerAlone
    /\ CatalogIdle /\ SqlIdle /\ UnitsIdle

\* the loop of lex goes on until it breaks or panics
SpecLexerFair == InitLA /\ [][NextLexer]_vars /\ WF_vars(lex(1))

SpecHeader == InitH /\ [][NextHeader]_vars

InitCat ==
    /\ BTreeIdle /\ InitQuery /\ ReaderIdle /\ VarintIdle /\ HeaderIdle /\ LexerIdle
    /\ InitCatalog /\ SqlIdle /\ UnitsIdle

SpecCatalog == InitCat /\ [][NextCatalog]_vars

InitS ==
    /\ InitBTree /\ InitQuery /\ ReaderIdle /\ VarintIdle /\ HeaderIdle /\ LexerIdle
    /\ CatalogIdle /\ InitSql /\ UnitsIdle

SpecSql == InitS /\ [][NextSql]_vars

InitLk ==
    /\ BTreeIdle /\ InitQuery /\ ReaderIdle /\ VarintIdle /\ HeaderIdle /\ LexerIdle
    /\ InitLookup /\ SqlIdle /\ ParserIdle /\ RecordIdle /\ PagerIdle

SpecLookup == InitLk /\ [][NextLookup]_vars

InitRec ==
    /\ BTreeIdle /\ InitQuery /\ ReaderIdle /\ VarintIdle /\ HeaderIdle /\ LexerIdle
    /\ CatalogIdle /\ SqlIdle /\ LookupIdle /\ ParserIdle /\ InitRecord /\ PagerIdle

SpecRecord == InitRec /\ [][NextRecord]_vars

InitPg ==
    /\ BTreeIdle /\ InitQuery /\ ReaderIdle /\ VarintIdle /\ HeaderIdle /\ LexerIdle
    /\ CatalogIdle /\ SqlIdle /\ LookupIdle /\ ParserIdle /\ RecordIdle /\ InitPager

SpecPage == InitPg /\ [][NextPager]_vars

InitPs ==
    /\ BTreeIdle /\ InitQuery /\ ReaderIdle /\ VarintIdle /\ HeaderIdle /\ LexerIdle
    /\ CatalogIdle /\ SqlIdle /\ LookupIdle /\ InitParser /\ RecordIdle /\ PagerIdle

\* the parser goes on while it can: a loop is left only by its own break
SpecParser == InitPs /\ [][NextParser]_vars /\ WF_vars(NextParser)

Next == NextBTree

Spec == Init /\ [][Next]_vars

----------------------------------------------------------------------------
(* Files whose page graph has a cycle: a well-formed file of the model with *)
(* one child pointer redirected to the root of its tree.                    *)

CorruptionKinds == {"table_cell", "table_rightmost", "index_cell", "index_rightmost"}

Corrupt(pages, kind) ==
    LET root == IF kind \in {"table_cell", "table_rightmost"} THEN TableRoot ELSE IndexRoot
        page == pages[root]
        bad == IF kind \in {"table_cell", "index_cell"}
               THEN [page EXCEPT !.records[Len(page.records)].left_child = ToU32(root)]
               ELSE [page EXCEPT !.rightmost_pointer = ToU32(root)]
    IN  [pages EXCEPT ![root] = bad]

InitCycle ==
    \E n \in 2..MaxRows, psize \in PageSizes, kind \in CorruptionKinds :
      \E vals \in [1..n -> Keys], cuts \in SUBSET (1..(n - 1)) :
        \E seps \in Separators(n) :
          LET rws == BuildRows(n, vals)
          IN  /\ kind \in {"table_cell", "table_rightmost"} => cuts # {}
              /\ kind \in {"index_cell", "index_rightmost"} => seps # {}
              /\ table_rows = rws
              /\ page_size = psize
              /\ file = FileOf(Corrupt(Merge(TablePages(rws, cuts),
                                             IndexPages(EntriesByKey(rws, Keys), seps)),
                                       kind), psize)
              /\ master_page_records = Catalog
              /\ op = "idle"
              /\ stack = <<>>
              /\ rows = <<>>
              /\ row_ids = NoIds
              /\ where_clause = NoWhere
              /\ result = <<>>
              /\ loaded = <<>>
              /\ request = NoRequest

SpecQuery == Init /\ [][NextQuery]_vars

----------------------------------------------------------------------------
(* Files whose row ids need more than 32 bits: 2^32 + 1 and 2^32 + 2 next   *)
(* to 1 and 2.                                                              *)

RowIdPool ==
    << ToU64(1), ToU64(2), <<1, 0, 0, 0, 1, 0, 0, 0>>, <<2, 0, 0, 0, 1, 0, 0, 0>> >>

\* the rows of a table with the row ids of the pool at the places ids
BuildRowsWithIds(ids, vals) ==
    [i \in 1..Len(ids) |-> TableLeafRecord(RowIdPool[ids[i]], <<NullV, Text(vals[i])>>)]

InitWide ==
    \E S \in SUBSET (1..Len(RowIdPool)), psize \in PageSizes :
      /\ Cardinality(S) <= MaxRows
      /\ \E vals \in [1..Cardinality(S) -> Keys], cuts \in SUBSET (1..(Cardinality(S) - 1)) :
          \E seps \in Separators(Cardinality(S)) :
            LET rws == BuildRowsWithIds(SortedSeq(S), vals)
            IN  /\ table_rows = rws
                /\ page_size = psize
                /\ file = FileOf(Merge(TablePages(rws, cuts),
                                       IndexPages(EntriesByKey(rws, Keys), seps)), psize)
                /\ master_page_records = Catalog
                /\ op = "idle"
                /\ stack = <<>>
                /\ rows = <<>>
                /\ row_ids = NoIds
                /\ where_clause = NoWhere
                /\ result = <<>>
                /\ loaded = <<>>
                /\ request = NoRequest

\* Tables whose column C holds an Int in some rows: the Int whose eight bytes
\* are the bytes of the text LongKey. There is no index.
MixedValues == { Text(<<97>>), Text(LongKey), IntV(Reverse(LongKey)) }

InitMixed ==
    \E n \in 0..MaxRows, psize \in PageSizes :
      \E vals \in [1..n -> MixedValues], cuts \in SUBSET (1..(n - 1)) :
          LET rws == [i \in 1..n |-> TableLeafRecord(ToU64(i), <<NullV, vals[i]>>)]
          IN  /\ table_rows = rws
              /\ page_size = psize
              /\ file = FileOf(TablePages(rws, cuts), psize)
              /\ master_page_records = <<Catalog[1]>>
              /\ op = "idle"
              /\ stack = <<>>
              /\ rows = <<>>
              /\ row_ids = NoIds
              /\ where_clause = NoWhere
              /\ result = <<>>
              /\ loaded = <<>>
              /\ request = NoRequest

InitMx ==
    /\ InitMixed /\ InitQuery /\ ReaderIdle /\ VarintIdle /\ HeaderIdle /\ LexerIdle
    /\ CatalogIdle /\ SqlIdle /\ UnitsIdle

SpecMixed == InitMx /\ [][NextQuery]_vars

InitW ==
    /\ InitWide /\ InitQuery /\ ReaderIdle /\ VarintIdle /\ HeaderIdle /\ LexerIdle
    /\ CatalogIdle /\ SqlIdle /\ UnitsIdle

SpecWide == InitW /\ [][Next]_vars

InitC ==
    /\ InitCycle /\ InitQuery /\ ReaderIdle /\ VarintIdle /\ HeaderIdle /\ LexerIdle
    /\ CatalogIdle /\ SqlIdle /\ UnitsIdle

SpecCycle == InitC /\ [][Next]_vars

----------------------------------------------------------------------------
(* Properties of the B-tree traversal *)

Count(s, x) == Cardinality({ i \in 1..Len(s) : s[i] = x })

SameBag(s, t) ==
    /\ Len(s) = Len(t)
    /\ \A i \in 1..Len(s) : Count(s, s[i]) = Count(t, s[i])

RowIdsOf(recs) == [i \in 1..Len(recs) |-> recs[i].row_id]

PageAt(p) == file[PageOffset(ToU64(p), page_size)]

InFile(p) == PageOffset(ToU64(p), page_size) \in DOMAIN file

TableRootPage == PageAt(TableRoot)

\* the leaf pages of the table B-tree, as page numbers
TableLeafPages ==
    { p \in PageNumbers : InFile(p) /\ PageAt(p).page_type = "LeafTable" }

RECURSIVE SumLen(_)
SumLen(S) ==
    IF S = {} THEN 0
    ELSE LET p == CHOOSE x \in S : TRUE
         IN  Len(PageAt(p).records) + SumLen(S \ {p})

ScanDone == op = "done" /\ request.cmd = "scan"

\* C1: a full scan of a table whose root is an interior page descends into every
\* cell's left child and then into the rightmost child: every leaf page is
\* loaded exactly once and every leaf cell is returned exactly once.
C1_ScanVisitsEveryLeafOnce ==
    (ScanDone /\ TableRootPage.page_type = "InteriorTable") =>
        /\ \A p \in TableLeafPages : Count(loaded, ToU32(p)) = 1
        /\ Count(loaded, TableRootPage.rightmost_pointer) = 1
        /\ \A i \in 1..Len(table_rows) : Count(result, table_rows[i]) = 1

\* C2: a full scan returns the rows in strictly increasing row-id order, and as
\* many rows as there are leaf cells below the table's root page.
C2_ScanOrderedAndComplete ==
    ScanDone =>
        /\ \A i \in 1..(Len(result) - 1) : UGt(result[i + 1].row_id, result[i].row_id)
        /\ Len(result) = SumLen(TableLeafPages)

\* the full scan of get_table_rows (no target list) as a function of the page
RECURSIVE ScanPage(_)
ScanPage(page) ==
    IF page.page_type = "LeafTable" THEN page.records
    ELSE IF page.page_type = "InteriorTable"
    THEN LET RECURSIVE cells(_)
             cells(i) == IF i > Len(page.records) THEN <<>>
                         ELSE ScanPage(load_table_at_page(AsU64(page.records[i].left_child)))
                              \o cells(i + 1)
         IN  cells(1)
    ELSE <<>>

IndexEnded == request.cmd = "index" /\ op \in {"done", "panic"}

\* C3: the index path returns the same multiset of row ids as a full scan of
\* the table filtered by C = K.
C3_IndexPathEqualsFilteredScan ==
    IndexEnded =>
        /\ op = "done"
        /\ SameBag(RowIdsOf(result),
                   RowIdsOf(FilterRows(ScanPage(TableRootPage), 1, request.key)))

FetchEnded == request.cmd = "fetch" /\ op \in {"done", "panic"}

ExistingTargets ==
    SelectSeq(request.targets,
              LAMBDA t : \E i \in 1..Len(table_rows) : table_rows[i].row_id = AsU64(t))

\* C4: a row-id-directed fetch over a multi-page table returns every target row
\* id that exists exactly once and no other row.
C4_FetchReturnsExactlyTargets ==
    (FetchEnded /\ TableRootPage.page_type = "InteriorTable") =>
        /\ op = "done"
        /\ SameBag(RowIdsOf(result),
                   [i \in 1..Len(ExistingTargets) |-> AsU64(ExistingTargets[i])])

\* C5: a page already on the current descent path is never entered again: the
\* traversal fails instead of recursing into a cycle.
C5_RevisitedPageDetected ==
    \A i, j \in 1..Len(stack) : i < j => stack[i].no # stack[j].no

----------------------------------------------------------------------------
(* Properties of the query plan *)

SelectId == query.result_columns = <<"ID">> /\ query.from = "T" /\ query.where = <<>>

\* C6: `SELECT id FROM t` prints, for each row, the row id of the cell header.
C6_SelectIdPrintsRowId ==
    (SelectId /\ TableRootPage.page_type = "LeafTable" /\ (QueryDone \/ QueryPanicked)) =>
        /\ QueryDone
        /\ stdout = [i \in 1..Len(TableRootPage.records) |->
                        Decimal(SmallNat(TableRootPage.records[i].row_id))]

----------------------------------------------------------------------------
(* Properties of the byte reader *)

\* C7: read_varint applied to the SQLite varint of a value below 2^56 returns
\* the value and the number of bytes of the encoding, whatever that number.
C7_VarintRoundTrip ==
    vstate \in {"done", "panic"} =>
        /\ vstate = "done"
        /\ varint_n = GroupsValue(encoded)
        /\ size = Len(encoded)

\* a header of the data model: the magic prefix, a page size that is 1 or a
\* power of two from 512 on, versions 1 or 2, fractions 64/32/32, schema format
\* 1-4, text encoding 1-3, and no incremental vacuum without a largest root page
WellFormedHeader(buf) ==
    /\ Len(buf) >= 100
    /\ SubSeq(buf, 1, 16) = Magic
    /\ \/ SubSeq(buf, 17, 18) = <<0, 1>>
       \/ buf[18] = 0 /\ buf[17] \in {2, 4, 8, 16, 32, 64, 128}
    /\ buf[19] \in {1, 2}
    /\ buf[20] \in {1, 2}
    /\ SubSeq(buf, 22, 24) = <<64, 32, 32>>
    /\ SubSeq(buf, 45, 48) \in { BE32(k) : k \in 1..4 }
    /\ SubSeq(buf, 57, 60) \in { BE32(k) : k \in 1..3 }
    /\ SubSeq(buf, 53, 56) = BE32(0) => SubSeq(buf, 65, 68) = BE32(0)

HeaderParseEnded == hstate \in {"parsed", "panic"}

\* C8: DbHeader::parse returns a header for every well-formed 100-byte header,
\* returns none when the magic or one of the three payload fractions is wrong,
\* and has consumed exactly 100 bytes when it returns.
C8_HeaderParseTotalAndStrict ==
    HeaderParseEnded =>
        /\ WellFormedHeader(reader.buf) => hstate = "parsed"
        /\ (\/ SubSeq(reader.buf, 1, 16) # Magic
            \/ SubSeq(reader.buf, 22, 24) # <<64, 32, 32>>) => hstate = "panic"
        /\ hstate = "parsed" => reader.pos = 100

C8_Witness ==
    /\ hstate = "parsed"
    /\ WellFormedHeader(reader.buf)
    /\ Len(reader.buf) > 100
    /\ reader.pos = 100

\* a * m + c with every digit kept
RECURSIVE Product(_, _, _)
Product(a, m, c) ==
    IF a = <<>> THEN (IF c = 0 THEN <<>> ELSE <<c % 256>> \o Product(<<>>, m, c \div 256))
    ELSE LET x == Head(a) * m + c
         IN  <<x % 256>> \o Product(Tail(a), m, x \div 256)

\* a number without its leading zero digits
RECURSIVE Digits(_)
Digits(a) ==
    IF a = <<>> THEN <<>>
    ELSE IF a[Len(a)] = 0 THEN Digits(SubSeq(a, 1, Len(a) - 1))
    ELSE a

\* C9: the value 1 at offset 16 gives page_size 65536 and any other value v
\* gives v; the offset of page p >= 1 is (p - 1) * page_size with no digit lost,
\* for every 32-bit p.
C9_PageSizeAndOffsetExact ==
    hstate = "parsed" =>
        /\ LET v == reader.buf[17] * 256 + reader.buf[18]
           IN  header.page_size = IF v = 1 THEN 65536 ELSE v
        /\ offset # NoOffset =>
              Digits(offset.offset) =
                  Digits(Product(SubOne(offset.page), header.page_size, 0))

C9_Witness ==
    /\ hstate = "parsed"
    /\ SubSeq(reader.buf, 17, 18) = <<0, 1>>
    /\ header.page_size = 65536
    /\ offset.page = <<255, 255, 255, 255>>
    /\ offset.offset = <<0, 0, 254, 255, 255, 255, 0, 0>>

----------------------------------------------------------------------------
(* Properties of the lexer *)

AsciiLetters == Range(LowerCase) \cup Range(UpperCase)

\* the twelve keywords and their tokens
TwelveKeywords ==
    { [word |-> <<"A", "U", "T", "O", "I", "N", "C", "R", "E", "M", "E", "N", "T">>, type |-> "AutoIncrement"],
      [word |-> <<"C", "R", "E", "A", "T", "E">>, type |-> "Create"],
      [word |-> <<"T", "A", "B", "L", "E">>, type |-> "Table"],
      [word |-> <<"P", "R", "I", "M", "A", "R", "Y">>, type |-> "Primary"],
      [word |-> <<"K", "E", "Y">>, type |-> "Key"],
      [word |-> <<"S", "E", "L", "E", "C", "T">>, type |-> "Select"],
      [word |-> <<"F", "R", "O", "M">>, type |-> "From"],
      [word |-> <<"W", "H", "E", "R", "E">>, type |-> "Where"],
      [word |-> <<"N", "O", "T">>, type |-> "Not"],
      [word |-> <<"N", "U", "L", "L">>, type |-> "Null"],
      [word |-> <<"I", "N", "D", "E", "X">>, type |-> "Index"],
      [word |-> <<"O", "N">>, type |-> "On"] }

\* the token asked for, for a word in capitals
Expected(word) ==
    IF \E k \in TwelveKeywords : k.word = word
    THEN Token((CHOOSE k \in TwelveKeywords : k.word = word).type)
    ELSE Identifier(word)

LexEnded(l) == lexer[l].status \in {"done", "panic"}

\* both spellings of the text give the same tokens
SameTokenStreams ==
    (LexEnded(1) /\ LexEnded(2)) =>
        /\ lexer[1].status = lexer[2].status
        /\ lexer[1].tokens = lexer[2].tokens

\* a word made of letters and underscores
LetterWord(w) == w # <<>> /\ \A i \in 1..Len(w) : w[i] \in AsciiLetters \cup {"_"}

\* C10, as stated: every word made of letters and underscores, in any spelling,
\* is lexed to the keyword token of the word in capitals or else to the
\* identifier in capitals, and two spellings of a text give the same tokens.
C10_EveryLetterWordFolded ==
    /\ \A l \in 1..2 :
         (LexEnded(l) /\ LetterWord(canonical)) =>
             /\ lexer[l].status = "done"
             /\ lexer[l].tokens = <<Expected(canonical), Eof>>
    /\ SameTokenStreams

\* C10, amended: the same for every word that starts with a letter and goes on
\* with letters and underscores.
C10_IdentifierWordFolded ==
    /\ \A l \in 1..2 :
         (LexEnded(l) /\ LetterWord(canonical) /\ canonical[1] \in AsciiLetters) =>
             /\ lexer[l].status = "done"
             /\ lexer[l].tokens = <<Expected(canonical), Eof>>
    /\ SameTokenStreams

C10_Witness ==
    /\ canonical = <<"O", "N">>
    /\ lexer[1].input = <<"o", "N">>
    /\ lexer[2].input = <<"O", "N">>
    /\ lexer[1].status = "done"
    /\ lexer[2].status = "done"
    /\ lexer[1].tokens = <<Token("On"), Eof>>

\* the tokens of a lexer that returned end with Eof and hold no other Eof
EofOnlyLast(l) ==
    lexer[l].status = "done" =>
        /\ lexer[l].tokens # <<>>
        /\ \A i \in 1..Len(lexer[l].tokens) :
              (lexer[l].tokens[i] = Eof) <=> (i = Len(lexer[l].tokens))

\* a step of a lexer does not move the position back, and moves it forward
\* when it adds a token other than Eof
PositionAdvances(l) ==
    /\ lexer'[l].position >= lexer[l].position
    /\ (/\ Len(lexer'[l].tokens) > Len(lexer[l].tokens)
        /\ lexer'[l].tokens[Len(lexer'[l].tokens)] # Eof)
           => lexer'[l].position > lexer[l].position

\* C11: for every input, lex ends: it panics or returns tokens that end with
\* the only Eof; the position never decreases and every token other than Eof
\* consumes at least one character.
C11_LexTerminates ==
    /\ [](\A l \in 1..2 : EofOnlyLast(l))
    /\ [][\A l \in 1..2 : PositionAdvances(l)]_vars
    /\ <>(\A l \in 1..2 : lexer[l].status # "lexing")

C11_Witness ==
    /\ canonical = <<"-", "-", " ", "\n", ";">>
    /\ lexer[1].status = "done"
    /\ lexer[1].tokens = <<Token("Semicolon"), Eof>>
    /\ lexer[1].position = 5

----------------------------------------------------------------------------
(* Properties of the catalog *)

\* row i of the master page has been parsed into a record
RecordParsed(i) == i <= Len(catalog.records)

\* MasterPageRecord::parse did not return for row i
RecordFailed(i) == catalog.status \in {"panic", "loop"} /\ i = Len(catalog.records) + 1

\* C12: a CREATE TABLE statement of the grammar is parsed; the columns of its
\* record are the declared column names in capitals, in the order declared,
\* whether written bare or in double quotes, and the constraints of each column
\* of the Ast are the declared ones in the order written.
C12_TableColumnsAsDeclared ==
    \A i \in 1..Len(declared) :
        declared[i].kind = "table" =>
            /\ ~RecordFailed(i)
            /\ RecordParsed(i) =>
                  /\ catalog.records[i].columns =
                        [c \in 1..Len(declared[i].columns) |-> declared[i].columns[c].name.upper]
                  /\ catalog.asts[i].kind = "CreateTable"
                  /\ Len(catalog.asts[i].column_defs) = Len(declared[i].columns)
                  /\ \A c \in 1..Len(declared[i].columns) :
                        catalog.asts[i].column_defs[c].constraints =
                            [k \in 1..Len(declared[i].columns[c].constraints) |->
                                declared[i].columns[c].constraints[k].constraint]

C12_Witness ==
    /\ Len(declared) = 1
    /\ declared[1].kind = "table"
    /\ master_page[1].sql = <<"C", "R", "E", "A", "T", "E", " ", "T", "A", "B", "L", "E", " ", "t", " ", "(", "\"", "s", "i", "z", "e", " ", "r", "a", "n", "g", "e", "\"", " ", "T", "e", "x", "t", " ", "N", "o", "t", " ", "N", "u", "l", "l", " ", "p", "r", "i", "m", "a", "r", "y", " ", "k", "e", "y", ",", " ", "i", "d", " ", "i", "n", "t", "e", "g", "e", "r", " ", "p", "r", "i", "m", "a", "r", "y", " ", "k", "e", "y", " ", "A", "U", "T", "O", "I", "N", "C", "R", "E", "M", "E", "N", "T", ")">>
    /\ catalog.status = "done"
    /\ catalog.records[1].columns = << <<"S", "I", "Z", "E", " ", "R", "A", "N", "G", "E">>, <<"I", "D">> >>
    /\ catalog.asts[1].column_defs[1].constraints = <<"NotNull", "PrimaryKey">>
    /\ catalog.asts[1].column_defs[2].constraints = <<"PrimaryKey", "AutoIncrement">>

\* C13: a CREATE TABLE statement whose table name is sqlite_sequence in any
\* case, written bare or in double quotes, with the two untyped columns SQLite
\* stores, is parsed into CreateTable SQLITE_SEQUENCE with the columns NAME TEXT
\* and SEQ INTEGER and no constraints.
C13_SequenceTableRewritten ==
    \A i \in 1..Len(declared) :
        declared[i].kind = "sequence" =>
            /\ ~RecordFailed(i)
            /\ RecordParsed(i) =>
                  catalog.asts[i] =
                      AstCreateTable(<<"S", "Q", "L", "I", "T", "E", "_", "S", "E", "Q", "U", "E", "N", "C", "E">>,
                          << [kind |-> "ColumnDef", name |-> <<"N", "A", "M", "E">>,
                              data_type |-> <<"T", "E", "X", "T">>, constraints |-> <<>>],
                             [kind |-> "ColumnDef", name |-> <<"S", "E", "Q">>,
                              data_type |-> <<"I", "N", "T", "E", "G", "E", "R">>, constraints |-> <<>>] >>)

\* C14: the columns of the record of a CREATE INDEX statement are the indexed
\* columns in the order the statement declares them.
C14_IndexColumnsInDeclaredOrder ==
    \A i \in 1..Len(declared) :
        declared[i].kind = "index" =>
            /\ ~RecordFailed(i)
            /\ RecordParsed(i) =>
                  catalog.records[i].columns =
                      [c \in 1..Len(declared[i].columns) |-> declared[i].columns[c].upper]

\* the lines .tables is to print: the names of the tables of the master page,
\* in its order, with single spaces between them
TableNamesLine ==
    LET tables == SelectSeq(declared, LAMBDA d : d.kind # "index")
    IN  as_utf8(JoinWith([i \in 1..Len(tables) |-> tables[i].name.text], <<" ">>))

\* C15: when .tables has ended, it has printed one line and no other: the
\* names of the tables, without the indexes.
C15_TablesPrintsOneLineOfTableNames ==
    (catalog.command = "tables" /\ catalog.status = "done") =>
        stdout = <<TableNamesLine>>

----------------------------------------------------------------------------
(* Properties of the query plan *)

\* C17: SELECT COUNT(*) FROM t ends and prints one line, the number of rows of
\* the table: of the leaf cells of its B-tree, whether the tree is one page or
\* more; 0 for a table without rows.
C17_CountPrintsNumberOfRows ==
    (query.result_columns = <<"COUNT(*)">> /\ query.from = "T" /\ query.where = <<>>) =>
        /\ ~QueryPanicked
        /\ QueryDone => stdout = <<Decimal(Len(table_rows))>>

\* the values of a line with a bar between them
RECURSIVE BarSeparated(_)
BarSeparated(values) ==
    IF Len(values) = 1 THEN Display(values[1])
    ELSE BarSeparated(SubSeq(values, 1, Len(values) - 1))
         \o <<124>> \o Display(values[Len(values)])

\* the position of a column among the declared columns of the table
DeclaredAt(table, column_name) ==
    CHOOSE c \in 1..Len(table.columns) : table.columns[c] = column_name

\* the values of a row a column list asks for
Projection(table, columns, row) ==
    IF columns = <<"*">> THEN row.values
    ELSE [c \in 1..Len(columns) |-> row.values[DeclaredAt(table, columns[c])]]

\* a Select step is taken
SelectStepTaken == Stepping("Select") /\ step' = step + 1

\* C18: a Select step adds one line for each row of the row set, in the order
\* of the row set; the line is the values of all the columns in declared order
\* for "*" and of the columns asked for, in the order asked, otherwise, with a
\* bar between them.
C18_SelectEmitsALinePerRow ==
    [][SelectStepTaken =>
          results' = results \o
              [i \in 1..Len(execution_context.rows) |->
                  BarSeparated(Projection(execution_context.table[1],
                                          steps[step].columns,
                                          execution_context.rows[i]))]]_vars

C18_Witness ==
    /\ query.result_columns = <<"C", "ID">>
    /\ query.where = <<>>
    /\ Len(table_rows) = 3
    /\ QueryDone
    /\ stdout = << <<98, 124, 78, 85, 76, 76>>, <<97, 124, 78, 85, 76, 76>>,
                   <<98, 124, 78, 85, 76, 76>> >>

\* the rows the plan holds once the Filter step is done
Filtered == query.where # <<>> /\ step > 2

----------------------------------------------------------------------------
(* Properties of a SQL command *)

\* C16: Db::run_sql_command is called at most twice for a command (once by
\* itself, for the semicolon) and the command is executed once; for a text
\* that does not end with a semicolon, the invocation on the text followed by a
\* semicolon prints the same lines, and ends the same way, as the one on the
\* text.
C16_ExecutedOnceWithOrWithoutSemicolon ==
    /\ sql.calls <= 2
    /\ sql.executed <= 1
    /\ SqlEnded => sql.executed = 1
    /\ (~ends_with(sql.text, ";") /\ sql.run = 2 /\ SqlEnded) =>
          /\ stdout = sql.outputs[1].stdout
          /\ SqlPanicked = sql.outputs[1].panicked

C16_Witness ==
    /\ sql.text = <<"s", "e", "l", "e", "c", "t", " ", "c", "o", "u", "n", "t", "(", "*", ")", " ", "f", "r", "o", "m", " ", "t", ";", " ", "s", "e", "l", "e", "c", "t", " ", "c", ",", " ", "i", "d", " ", "f", "r", "o", "m", " ", "t">>
    /\ sql.run = 2
    /\ sql.status = "done"
    /\ sql.calls = 1
    /\ sql.outputs[1].calls = 2
    /\ Len(table_rows) = 2
    /\ Len(stdout) = 3
    /\ stdout = sql.outputs[1].stdout

\* C20: when a SQL command has failed, nothing has been printed, whether the
\* command is one statement or several.
C20_NothingPrintedBeforeFailure == SqlPanicked => stdout = <<>>

----------------------------------------------------------------------------
(* Properties of the catalog lookups *)

\* C21: a lookup by a spelling of a name that is in the catalog, differing from
\* it in the case of letters only, succeeds: get_table and get_column_index
\* return, get_index_for_column_and_table returns Some.
C21_LookupsIgnoreCase ==
    lookup.fn # "none" => lookup.status = "some"

\* C22: the index returned for column c of table t is an index on t whose
\* first declared column is c (names compared without regard to case).
C22_IndexChosenByFirstColumn ==
    (lookup.fn = "get_index_for_column_and_table" /\ lookup.status = "some") =>
        /\ declared[lookup.at].kind = "index"
        /\ to_ascii_uppercase(declared[lookup.at].on.text) = to_ascii_uppercase(lookup.table)
        /\ declared[lookup.at].columns[1].upper = to_ascii_uppercase(lookup.column)

----------------------------------------------------------------------------
(* Properties of the index path *)

IndexRootPage == PageAt(IndexRoot)

\* the cells of the root page of the index, when it is an interior page, whose
\* key is the value looked up
MatchingInteriorCells ==
    IF IndexRootPage.page_type # "InteriorIndex" THEN {}
    ELSE { i \in 1..Len(IndexRootPage.records) :
             IndexRootPage.records[i].values[1] = request.key }

\* C23: when an interior cell of the index holds the key looked up, the lookup
\* ends without failure and the row id of that cell is among the rows returned.
C23_InteriorIndexCellMatches ==
    (IndexEnded /\ MatchingInteriorCells # {}) =>
        /\ op = "done"
        /\ \A i \in MatchingInteriorCells :
              Contains(RowIdsOf(result), IndexRootPage.records[i].values[2].n)

\* a is b with some of its elements left out
RECURSIVE IsSubsequence(_, _)
IsSubsequence(a, b) ==
    IF a = <<>> THEN TRUE
    ELSE IF b = <<>> THEN FALSE
    ELSE IF Head(a) = Head(b) THEN IsSubsequence(Tail(a), Tail(b))
    ELSE IsSubsequence(a, Tail(b))

\* the pages of the table B-tree that were loaded, in order
TablePagesLoaded == SelectSeq(loaded, LAMBDA p : UGt(ToU32(IndexRoot), p))

\* the fetch was called with an empty target list: by get_table_rows, or by
\* fetch_rows_from_index when no row holds the key
EmptyTargetFetch ==
    \/ request.cmd = "fetch" /\ request.targets = <<>>
    \/ /\ request.cmd = "index"
       /\ \A i \in 1..Len(table_rows) : table_rows[i].values[2] # request.key

\* C29: a fetch called with an empty target list ends with zero rows and has
\* loaded the root page of the table only (no child page, no full scan); during
\* a fetch the target list only loses elements, and once it is empty no page is
\* loaded and no row is pushed.
C29_EmptyTargetListStopsTheFetch ==
    [][/\ EmptyTargetFetch' =>
             /\ op' \in {"index_walk", "fetch", "done"}
             /\ op' \in {"fetch", "done"} =>
                   /\ row_ids' = SomeIds(<<>>)
                   /\ rows' = <<>>
                   /\ TablePagesLoaded' = <<ToU32(TableRoot)>>
                   /\ op' = "done" => result' = <<>>
       /\ (op = "fetch" /\ op' = "fetch") =>
             /\ row_ids'.some
             /\ IsSubsequence(row_ids'.ids, row_ids.ids)
             /\ row_ids.ids = <<>> => (loaded' = loaded /\ rows' = rows)]_vars

\* the index holds no entry for the key looked up in a table of two pages or
\* more: the fetch has ended with no row
C29_Witness ==
    /\ request.cmd = "index"
    /\ request.key = Text(<<99>>)
    /\ TableRootPage.page_type = "InteriorTable"
    /\ Len(table_rows) = MaxRows
    /\ op = "done"
    /\ row_ids = SomeIds(<<>>)
    /\ result = <<>>
    /\ TablePagesLoaded = <<ToU32(TableRoot)>>

\* the rows whose index entry holds the key looked up
RowsOfKey == SelectSeq(table_rows, LAMBDA row : row.values[2] = request.key)

\* C30: the rows the index path returns are rows whose 64-bit row id is the
\* row id of an index entry of the key: a row whose row id agrees with one of
\* them in the low 32 bits only is not returned.
C30_RowIdsKeep64Bits ==
    (IndexEnded /\ op = "done") =>
        \A i \in 1..Len(result) : Contains(RowIdsOf(RowsOfKey), result[i].row_id)

----------------------------------------------------------------------------
(* Properties of the comparison of values *)

\* the Filter step of the plan has been taken
FilterStepTaken ==
    /\ step >= 3
    /\ Len(steps) >= 2
    /\ steps[2].kind = "Filter"
    /\ execution_context.has_rows

\* C26: the WHERE filter keeps every row of the page whose value in the column
\* has the bytes of the literal, whatever the type of the stored value: a
\* stored Int is kept when its eight bytes are the bytes of the Text literal.
C26_EqualityComparesBytes ==
    (FilterStepTaken /\ query.from = "T" /\ ~QueryPanicked) =>
        \A i \in 1..Len(TableRootPage.records) :
            (/\ IsRow(TableRootPage.records[i])
             /\ as_bytes(TableRootPage.records[i].values[2]) = as_bytes(steps[2].value))
                => Contains(execution_context.rows, TableRootPage.records[i])

----------------------------------------------------------------------------
(* Properties of the record decoder *)

\* the value SQLite's file format gives a column: its shape and, byte for
\* byte, its body
Decoded(column, value) ==
    CASE column.code = 0 -> value = NullV
      [] column.code \in 1..7 ->
           /\ value.t = "Int"
           /\ Len(column.body) = <<1, 2, 3, 4, 6, 8, 8>>[column.code]
           /\ SubSeq(value.n, 1, Len(column.body)) = Reverse(column.body)
      [] column.code = 8 -> value = IntV(ToU64(0))
      [] column.code = 9 -> value = IntV(ToU64(1))
      [] column.code >= 12 /\ column.code % 2 = 0 ->
           /\ Len(column.body) = (column.code - 12) \div 2
           /\ value = Blob(column.body)
      [] column.code >= 13 /\ column.code % 2 = 1 ->
           /\ Len(column.body) = (column.code - 13) \div 2
           /\ value = Text(column.body)
      [] OTHER -> FALSE

CellParsed == cell.status \in {"parsed", "panic"}

C25_Int24AndInt48AreSignExtended ==
    cell.status = "parsed" =>
        \A i \in 1..Len(cell.columns) :
            cell.columns[i].code \in 1..6 =>
                cell.parsed.values[i] = IntV(SignExtended(cell.columns[i].body))

\* the same for the bodies of 1, 2, 4 and 8 bytes alone
SignExtendedOtherWidths ==
    cell.status = "parsed" =>
        \A i \in 1..Len(cell.columns) :
            cell.columns[i].code \in {1, 2, 4, 6} =>
                cell.parsed.values[i] = IntV(SignExtended(cell.columns[i].body))

----------------------------------------------------------------------------
(* Properties of the page reads *)

PageRead == pager.read.page # 0

\* C27: whatever was read before, and so wherever the cursor of the file was
\* left, a read of the master page or of a page returns the page the file
\* holds there: its kind, its rightmost pointer and its cells in pointer
\* order.
C27_PageReadsIgnoreTheCursor ==
    PageRead =>
        /\ pager.read.ok
        /\ pager.read.returned = IF pager.read.page = 1 THEN MasterPage
                                 ELSE pager.pages[pager.read.page]

\* an interior table page read after a read further down the file
C27_Witness ==
    /\ PageRead
    /\ pager.read.ok
    /\ pager.read.page = TableRoot
    /\ pager.read.back
    /\ pager.read.returned.page_type = "InteriorTable"
    /\ Len(pager.read.returned.records) = MaxRows - 1
    /\ pager.read.returned = pager.pages[TableRoot]

----------------------------------------------------------------------------
(* Properties of the parser *)

ParserEnded == parser.pc \in {"ok", "panic"}

\* the machine and the functions parse / parse_create agree on what the
\* parser does with a stream
ParserAgrees ==
    LET returned == IF parser.entry = "parse" THEN parse(parser.tokens)
                    ELSE parse_create(parser.tokens, 0)
    IN  /\ parser.pc = "ok" => (returned.st = "ok" /\ returned.position = parser.position)
        /\ parser.pc = "panic" => returned.st = "panic"
        /\ returned.st = "loop" => ~ParserEnded

\* C28: on every token stream ending in Eof the parser ends, with a result or
\* with an error.
C28_ParserTerminates == <>ParserEnded

\* the parser is in the inner loop of parse_column_defs at a PRIMARY not
\* followed by KEY or at a NOT not followed by NULL
AtLoneConstraint ==
    /\ parser.pc = "constraint"
    /\ \/ /\ peek_token(parser.tokens, parser.position).type = "Primary"
          /\ peek_next(parser.tokens, parser.position).type # "Key"
       \/ /\ peek_token(parser.tokens, parser.position).type = "Not"
          /\ peek_next(parser.tokens, parser.position).type # "Null"

\* every other loop is left
ParserEndsElsewhere == <>(ParserEnded \/ AtLoneConstraint)

============================================================================
